---- MODULE Spec2Model ----
(***************************************************************************)
(* Model of the study-aid backend (backend/app/routers/ai_processing.py):  *)
(* the spaced-repetition review engine (card scheduler, daily analytics,   *)
(* study streak) and the artifact cache gate of the generation endpoints.  *)
(*                                                                         *)
(* Every request handler is a process that advances one store call at a    *)
(* time: an action is one call to the remote store together with the local *)
(* code that runs until the next call is issued.                           *)
(***************************************************************************)
EXTENDS Integers, Sequences, FiniteSets, TLC

(***************************************************************************)
(* Bounds of the model.                                                    *)
(***************************************************************************)
MaxRequests == 3
MaxFaultyRequests == 2
MaxStudyActions == 3
MaxDay == 2
MaxArtifacts == 2
MaxRaceReviews == 3
MaxItems == 4
MaxTextLen == 4
MaxChars == 3
MaxSentences == 2
MaxChunks == 2
MaxOwnedReviews == 1

Procs == {1, 2}
Days == 0..MaxDay
Cards == {0}
ValidRatings == {"again", "good", "easy"}
Ratings == ValidRatings \cup {"hard"}
TimesTaken == {3}
AnyTimesTaken == {-2, 3}

Kinds == {"summary", "quiz", "flashcards"}
\* the files of the user: f1 and f2 hold text, f3 holds only white space, and
\* f4 does not exist
Files == {"f1", "f2", "f3", "f4"}
ModelPayloads == {"m1", "m2"}
EditPayloads == {"e1"}

MinutesPerDay == 24 * 60
NoDate == -1

\* current_user.id of the requests, and the id of another user
Caller == "u1"
Stranger == "u2"
SearchWindow == 300
NoRow == [found |-> FALSE]
NoResp == [status |-> 0]

VARIABLES
    today,          \* date.today(), a day number
    reviews,        \* table flashcard_reviews, in insertion order
    cardStates,     \* table flashcard_card_states, by flashcard_id
    analytics,      \* table flashcard_daily_analytics, by date
    profile,        \* the user's row of table user_profiles
    budget,         \* requests the model still admits
    pc,             \* where each request handler stands
    req,            \* the request each handler serves
    loc,            \* the handler's local variables
    resp,           \* the last response each handler returned
    studied,        \* history: the days whose study actions wrote the streak
    artifacts,      \* tables summaries, quizzes, flashcards, oldest row first
    nextId,         \* the ids uuid4 has handed out so far, plus one
    gpc,            \* where each generation handler stands
    greq,           \* the request each generation handler serves
    gloc,           \* the generation handler's local variables
    gresp,          \* the last response each generation handler returned
    first,          \* history: per file and kind, what the first generate
                    \* call answered since the last deletion
    casc,           \* one call of the generation cascade: its arguments,
                    \* settings, position, the backends called and the result
    val,            \* one call of a validator: the parsed list and the result
    chk             \* one call of chunk_text: its arguments and locals

reviewVars == <<today, reviews, cardStates, analytics, profile, budget,
                pc, req, loc, resp, studied>>

genVars == <<artifacts, nextId, gpc, greq, gloc, gresp, first>>

funVars == <<casc, val, chk>>

NoGenReq == [op |-> "none", kind |-> "none", file_id |-> "none", id |-> 0,
             payload |-> "none"]

\* the locals of a generation handler before it has done anything
InitGenLoc ==
    [summary_text |-> "none",   \* summary_text of the summary step
     payload      |-> "none",   \* questions / cards / summary_text
     id           |-> 0,        \* existing_quiz["id"] of the delete handlers
     invoked      |-> FALSE,    \* a generation backend has been called
     wrote        |-> FALSE]    \* the handler has written to the store

NoReq == [op |-> "none", flashcard_id |-> 0, rating |-> "none", time_taken |-> 0]

\* the locals of a handler before it has read anything
InitLoc ==
    [current_state |-> NoRow,   \* update_card_state: current_state
     now           |-> 0,       \* update_card_state: now
     updated_state |-> NoRow,   \* record_flashcard_review: updated_state
     an_today      |-> 0,       \* get_or_init_daily_analytics: today
     an_id         |-> NoDate,  \* analytics["id"]: the date of the row it names
     an            |-> NoRow,   \* update_daily_analytics: analytics
     st_today      |-> 0,       \* update_study_streak: today
     update_data   |-> NoRow]   \* update_study_streak: update_data

\* datetime.utcnow(), in minutes
Now == today * MinutesPerDay

(***************************************************************************)
(* update_card_state: the transition of one card under a rating.           *)
(***************************************************************************)
StoredStreak(current_state) ==
    IF current_state.found THEN current_state.correct_streak ELSE 0

StoredEasyCount(current_state) ==
    IF current_state.found THEN current_state.easy_count ELSE 0

NewInterval(rating) ==
    IF rating = "again" THEN 1
    ELSE IF rating = "good" THEN 3
    ELSE 10

\* a variant that forgets to reset the streak on "again"
NewStreakNoReset(current_state, rating) ==
    IF rating = "again" THEN StoredStreak(current_state)
    ELSE StoredStreak(current_state) + 1

NewStreak(current_state, rating) ==
    IF rating = "again" THEN 0
    ELSE IF rating = "good" THEN StoredStreak(current_state) + 1
    ELSE StoredStreak(current_state) + 1

NewEasyCount(current_state, rating) ==
    IF rating = "again" THEN StoredEasyCount(current_state)
    ELSE IF rating = "good" THEN StoredEasyCount(current_state)
    ELSE StoredEasyCount(current_state) + 1

\* a variant that asks for a streak of 3
IsFinishedStreak3(new_easy_count, new_streak) ==
    new_easy_count >= 3 \/ new_streak >= 3

IsFinished(new_easy_count, new_streak) ==
    new_easy_count >= 3 \/ new_streak >= 2

StateData(current_state, rating, now) ==
    [found          |-> TRUE,
     interval       |-> NewInterval(rating),
     due_time       |-> now + NewInterval(rating),
     correct_streak |-> NewStreak(current_state, rating),
     easy_count     |-> NewEasyCount(current_state, rating),
     is_finished    |-> IsFinished(NewEasyCount(current_state, rating),
                                   NewStreak(current_state, rating))]

(***************************************************************************)
(* get_or_init_daily_analytics / update_daily_analytics.                   *)
(***************************************************************************)
AnalyticsData ==
    [found |-> TRUE, total_reviewed |-> 0, again_count |-> 0, good_count |-> 0,
     easy_count |-> 0, total_finished |-> 0, total_time_spent |-> 0]

\* a variant that counts an easy rating as a good one
UpdateDataEasyAsGood(a, rating, time_taken, card_finished) ==
    [found            |-> TRUE,
     total_reviewed   |-> a.total_reviewed + 1,
     again_count      |-> a.again_count + (IF rating = "again" THEN 1 ELSE 0),
     good_count       |-> a.good_count + (IF rating # "again" THEN 1 ELSE 0),
     easy_count       |-> a.easy_count,
     total_finished   |-> a.total_finished + (IF card_finished THEN 1 ELSE 0),
     total_time_spent |-> a.total_time_spent + time_taken]

UpdateData(a, rating, time_taken, card_finished) ==
    [found            |-> TRUE,
     total_reviewed   |-> a.total_reviewed + 1,
     again_count      |-> a.again_count + (IF rating = "again" THEN 1 ELSE 0),
     good_count       |-> a.good_count + (IF rating = "good" THEN 1 ELSE 0),
     easy_count       |-> a.easy_count + (IF rating = "easy" THEN 1 ELSE 0),
     total_finished   |-> a.total_finished + (IF card_finished THEN 1 ELSE 0),
     total_time_spent |-> a.total_time_spent + time_taken]

(***************************************************************************)
(* update_study_streak: the streak computed from the profile row read.     *)
(***************************************************************************)
Max(a, b) == IF a >= b THEN a ELSE b

\* a variant that goes on counting after a gap
CalcStreakNoGapReset(last_study_date, current_streak, day) ==
    IF last_study_date = NoDate THEN 1
    ELSE IF last_study_date = day THEN current_streak
    ELSE current_streak + 1

CalcStreak(last_study_date, current_streak, day) ==
    IF last_study_date = NoDate THEN 1
    ELSE IF last_study_date = day THEN current_streak
    ELSE IF last_study_date = day - 1 THEN current_streak + 1
    ELSE 1

\* a variant that never raises the longest streak
StreakUpdateDataKeepsLongest(p, day) ==
    [found           |-> TRUE,
     current_streak  |-> CalcStreak(p.last_study_date, p.current_streak, day),
     longest_streak  |-> p.longest_streak,
     last_study_date |-> day]

StreakUpdateData(p, day) ==
    [found           |-> TRUE,
     current_streak  |-> CalcStreak(p.last_study_date, p.current_streak, day),
     longest_streak  |-> Max(p.longest_streak,
                             CalcStreak(p.last_study_date, p.current_streak, day)),
     last_study_date |-> day]

\* what the handler assumes when the profile row is missing or unreadable
DefaultProfile ==
    [found |-> TRUE, current_streak |-> 1, longest_streak |-> 1,
     last_study_date |-> NoDate]

\* the row the sign-up handler creates: the streak columns are unset
SignupProfile ==
    [found |-> TRUE, current_streak |-> 0, longest_streak |-> 0,
     last_study_date |-> NoDate]

(***************************************************************************)
(* validate_quiz_json / validate_flashcard_json on a parsed list.  An       *)
(* element of the list is described by what the validators look at.        *)
(***************************************************************************)
\* a question as the validator wants it: four options, answer 1
GoodQuestion ==
    [is_dict |-> TRUE, has_keys |-> TRUE, question_len |-> 20,
     padded |-> FALSE, options |-> 4, answer_index |-> 1]

\* the elements a backend may answer with: good ones (one of them with white
\* space around its question), and one that fails each check
QuizElements ==
    {GoodQuestion,
     [GoodQuestion EXCEPT !.question_len = 12, !.padded = TRUE,
                          !.options = 3, !.answer_index = 2],
     [GoodQuestion EXCEPT !.question_len = 5],
     [GoodQuestion EXCEPT !.options = 2, !.answer_index = 0],
     [GoodQuestion EXCEPT !.answer_index = 4],
     [GoodQuestion EXCEPT !.answer_index = -1],
     [GoodQuestion EXCEPT !.has_keys = FALSE],
     [GoodQuestion EXCEPT !.is_dict = FALSE]}

GoodCard ==
    [is_dict |-> TRUE, has_keys |-> TRUE, front_len |-> 8, back_len |-> 30,
     padded |-> FALSE]

CardElements ==
    {GoodCard,
     [GoodCard EXCEPT !.front_len = 3, !.padded = TRUE],
     [GoodCard EXCEPT !.front_len = 2],
     [GoodCard EXCEPT !.back_len = 0],
     [GoodCard EXCEPT !.has_keys = FALSE],
     [GoodCard EXCEPT !.is_dict = FALSE]}

\* the lists of up to n elements of S
Lists(S, n) == UNION {[1..k -> S] : k \in 0..n}

\* the checks of one question
ValidQuestion(question) ==
    /\ question.is_dict
    /\ question.has_keys
    /\ question.question_len >= 10
    /\ question.options >= 3
    /\ question.answer_index >= 0
    /\ question.answer_index < question.options

\* the checks of one card
ValidCard(card) ==
    /\ card.is_dict
    /\ card.has_keys
    /\ card.front_len >= 3
    /\ card.back_len >= 3

\* the copy that is appended: its strings are stripped
Stripped(element) == [element EXCEPT !.padded = FALSE]

\* the validators answer None, or the validated list
None == [ok |-> FALSE]
Validated(items) == [ok |-> TRUE, items |-> items]

\* the copies appended by the loop of a validator, in the order of the list
StrippedAll(kept) == [i \in 1..Len(kept) |-> Stripped(kept[i])]

\* a variant that rejects the whole list when one element is invalid
validate_quiz_json_wholesale(quiz_data) ==
    IF Len(quiz_data) >= 3 /\ \A i \in 1..Len(quiz_data) : ValidQuestion(quiz_data[i])
    THEN Validated([i \in 1..Len(quiz_data) |-> Stripped(quiz_data[i])])
    ELSE None

validate_quiz_json(quiz_data) ==
    LET validated_questions ==
            StrippedAll(SelectSeq(quiz_data, ValidQuestion))
    IN IF Len(validated_questions) >= 3 THEN Validated(validated_questions)
       ELSE None

validate_flashcard_json(flashcard_data) ==
    LET validated_cards ==
            StrippedAll(SelectSeq(flashcard_data, ValidCard))
    IN IF Len(validated_cards) >= 3 THEN Validated(validated_cards)
       ELSE None

\* no generation call is under way
IdleCascade ==
    [pc |-> "idle", task |-> "none", groq_key |-> FALSE, hf_key |-> FALSE,
     text |-> [sentences |-> 0, wordy |-> 0, keywords |-> 0], count |-> 0,
     chunks |-> 0, i |-> 0, attempted |-> <<>>, failed |-> {},
     answered |-> FALSE, output |-> <<>>, parts |-> <<>>, source |-> "none",
     result |-> <<>>, status |-> 0, saved |-> FALSE]
IdleChunker == [pc |-> "idle"]

\* no validator has been called
IdleVal == [fn |-> "none", data |-> <<>>, returned |-> FALSE, result |-> None]

\* a validator is called with a parsed list
InitVal ==
    val \in {[fn |-> "quiz", data |-> d, returned |-> FALSE, result |-> None] :
                d \in Lists(QuizElements, MaxItems)}
            \cup
            {[fn |-> "flashcards", data |-> d, returned |-> FALSE,
              result |-> None] : d \in Lists(CardElements, MaxItems)}

(***************************************************************************)
(* The state after deployment: empty tables, the profile row of sign-up.   *)
(***************************************************************************)
InitTables ==
    /\ today = 0
    /\ reviews = <<>>
    /\ cardStates = [c \in Cards |-> NoRow]
    /\ analytics = [d \in Days |-> NoRow]
    /\ pc = [p \in Procs |-> "idle"]
    /\ req = [p \in Procs |-> NoReq]
    /\ loc = [p \in Procs |-> InitLoc]
    /\ resp = [p \in Procs |-> NoResp]
    /\ studied = {}

\* no artifact has been generated
InitGen ==
    /\ artifacts = [k \in Kinds |-> <<>>]
    /\ nextId = 1
    /\ gpc = [p \in Procs |-> "idle"]
    /\ greq = [p \in Procs |-> NoGenReq]
    /\ gloc = [p \in Procs |-> InitGenLoc]
    /\ gresp = [p \in Procs |-> NoResp]
    /\ first = [f \in Files, k \in Kinds |-> NoResp]

\* no cascade, validator or chunker call is under way
InitFun ==
    /\ casc = IdleCascade
    /\ val = IdleVal
    /\ chk = IdleChunker

\* midnight passes
Tick ==
    /\ today < MaxDay
    /\ today' = today + 1
    /\ UNCHANGED <<reviews, cardStates, analytics, profile,
                   budget, pc, req, loc, resp>>
    /\ UNCHANGED <<studied, genVars, funVars>>

\* the handler returns: its response is recorded and it is free again
Return(p, r) ==
    /\ pc' = [pc EXCEPT ![p] = "idle"]
    /\ req' = [req EXCEPT ![p] = NoReq]
    /\ loc' = [loc EXCEPT ![p] = InitLoc]
    /\ resp' = [resp EXCEPT ![p] = r]

Created(p) ==
    IF req[p].op = "review"
    THEN [status |-> 201, card_state |-> loc[p].updated_state]
    ELSE [status |-> 201]

ServerError == [status |-> 500]
BadRequest == [status |-> 400]

(***************************************************************************)
(* record_flashcard_review, one store call at a time.                      *)
(***************************************************************************)
\* a rating outside again/good/easy is refused before any store call
RejectRating(p, c, r, t) ==
    /\ pc[p] = "idle"
    /\ r \notin ValidRatings
    /\ resp' = [resp EXCEPT ![p] = BadRequest]
    /\ UNCHANGED <<today, reviews, cardStates, analytics, profile, budget,
                   pc, req, loc>>
    /\ UNCHANGED <<studied, genVars, funVars>>

\* a variant that POSTs the review whatever its rating
PostReviewAnyRating(p, c, r, t) ==
    /\ pc[p] = "idle" /\ budget > 0
    /\ budget' = budget - 1
    /\ req' = [req EXCEPT ![p] = [op |-> "review", flashcard_id |-> c,
                                  rating |-> r, time_taken |-> t]]
    /\ reviews' = Append(reviews, [flashcard_id |-> c, rating |-> r,
                                   time_taken |-> t])
    /\ loc' = [loc EXCEPT ![p] = InitLoc]
    /\ pc' = [pc EXCEPT ![p] = "card_get"]
    /\ resp' = [resp EXCEPT ![p] = NoResp]
    /\ UNCHANGED <<today, cardStates, analytics, profile>>
    /\ UNCHANGED <<studied, genVars, funVars>>

\* POST flashcard_reviews succeeds
PostReview(p, c, r, t) ==
    /\ pc[p] = "idle" /\ budget > 0
    /\ r \in ValidRatings
    /\ budget' = budget - 1
    /\ req' = [req EXCEPT ![p] = [op |-> "review", flashcard_id |-> c,
                                  rating |-> r, time_taken |-> t]]
    /\ reviews' = Append(reviews, [flashcard_id |-> c, rating |-> r,
                                   time_taken |-> t])
    /\ loc' = [loc EXCEPT ![p] = InitLoc]
    /\ pc' = [pc EXCEPT ![p] = "card_get"]
    /\ resp' = [resp EXCEPT ![p] = NoResp]
    /\ UNCHANGED <<today, cardStates, analytics, profile>>
    /\ UNCHANGED <<studied, genVars, funVars>>

\* get_or_init_card_state: GET flashcard_card_states, then now = utcnow()
GetCardState(p) ==
    /\ pc[p] = "card_get"
    /\ loc' = [loc EXCEPT ![p].current_state = cardStates[req[p].flashcard_id],
                          ![p].now = Now]
    /\ pc' = [pc EXCEPT ![p] = "card_put"]
    /\ UNCHANGED <<today, reviews, cardStates, analytics, profile,
                   budget, req, resp>>
    /\ UNCHANGED <<studied, genVars, funVars>>

\* a variant that computes the new state from the row stored at the time of
\* the write, as a serialized update would
UpsertCardStateSerialized(p) ==
    /\ pc[p] = "card_put"
    /\ LET c  == req[p].flashcard_id
           sd == StateData(cardStates[c], req[p].rating, loc[p].now)
       IN /\ cardStates' = [cardStates EXCEPT ![c] = sd]
          /\ loc' = [loc EXCEPT ![p].updated_state = sd,
                                ![p].an_today = today]
          /\ pc' = [pc EXCEPT ![p] = "an_get"]
          /\ UNCHANGED <<req, resp>>
    /\ UNCHANGED <<today, reviews, analytics, profile, budget>>
    /\ UNCHANGED <<studied, genVars, funVars>>

\* update_card_state: PATCH the row read, or POST a new row when none was
\* read; the table holds one row per card, so a POST of a card that has a
\* row by now is refused and the handler fails
UpsertCardState(p) ==
    /\ pc[p] = "card_put"
    /\ LET c  == req[p].flashcard_id
           sd == StateData(loc[p].current_state, req[p].rating, loc[p].now)
       IN IF loc[p].current_state.found \/ ~cardStates[c].found
          THEN /\ cardStates' = [cardStates EXCEPT ![c] = sd]
               /\ loc' = [loc EXCEPT ![p].updated_state = sd,
                                     ![p].an_today = today]
               /\ pc' = [pc EXCEPT ![p] = "an_get"]
               /\ UNCHANGED <<req, resp>>
          ELSE /\ Return(p, ServerError)
               /\ UNCHANGED cardStates
    /\ UNCHANGED <<today, reviews, analytics, profile, budget>>
    /\ UNCHANGED <<studied, genVars, funVars>>

\* get_or_init_daily_analytics: GET today's row
GetDailyAnalytics(p) ==
    /\ pc[p] = "an_get"
    /\ LET row == analytics[loc[p].an_today]
       IN IF row.found
          THEN /\ loc' = [loc EXCEPT ![p].an = row,
                                     ![p].an_id = loc[p].an_today]
               /\ pc' = [pc EXCEPT ![p] = "an_patch"]
          ELSE /\ pc' = [pc EXCEPT ![p] = "an_create"]
               /\ UNCHANGED loc
    /\ UNCHANGED <<today, reviews, cardStates, analytics, profile,
                   budget, req, resp>>
    /\ UNCHANGED <<studied, genVars, funVars>>

\* get_or_init_daily_analytics: POST a row of zeros; the table holds one row
\* per date, so when a row exists by now the POST is refused and the handler
\* goes on with its own analytics_data, whose id names no stored row
InitDailyAnalytics(p) ==
    /\ pc[p] = "an_create"
    /\ LET d == loc[p].an_today
       IN IF ~analytics[d].found
          THEN /\ analytics' = [analytics EXCEPT ![d] = AnalyticsData]
               /\ loc' = [loc EXCEPT ![p].an = AnalyticsData, ![p].an_id = d]
          ELSE /\ loc' = [loc EXCEPT ![p].an = AnalyticsData,
                                     ![p].an_id = NoDate]
               /\ UNCHANGED analytics
    /\ pc' = [pc EXCEPT ![p] = "an_patch"]
    /\ UNCHANGED <<today, reviews, cardStates, profile, budget,
                   req, resp>>
    /\ UNCHANGED <<studied, genVars, funVars>>

\* update_daily_analytics: PATCH the row by id; a PATCH that matches no row
\* answers 200 with an empty list, and result[0] raises
UpdateDailyAnalytics(p) ==
    /\ pc[p] = "an_patch"
    /\ IF loc[p].an_id # NoDate
       THEN /\ analytics' = [analytics EXCEPT ![loc[p].an_id] =
                    UpdateData(loc[p].an, req[p].rating, req[p].time_taken,
                               loc[p].updated_state.is_finished)]
            /\ loc' = [loc EXCEPT ![p].st_today = today]
            /\ pc' = [pc EXCEPT ![p] = "st_get"]
            /\ UNCHANGED <<req, resp>>
       ELSE /\ Return(p, ServerError)
            /\ UNCHANGED analytics
    /\ UNCHANGED <<today, reviews, cardStates, profile, budget>>
    /\ UNCHANGED <<studied, genVars, funVars>>

(***************************************************************************)
(* record_quiz_interaction.                                                *)
(***************************************************************************)
\* POST quiz_interactions succeeds
PostInteraction(p) ==
    /\ pc[p] = "idle" /\ budget > 0
    /\ budget' = budget - 1
    /\ req' = [req EXCEPT ![p] = [NoReq EXCEPT !.op = "quiz"]]
    /\ loc' = [loc EXCEPT ![p] = [InitLoc EXCEPT !.st_today = today]]
    /\ pc' = [pc EXCEPT ![p] = "st_get"]
    /\ resp' = [resp EXCEPT ![p] = NoResp]
    /\ UNCHANGED <<today, reviews, cardStates, analytics, profile>>
    /\ UNCHANGED <<studied, genVars, funVars>>

(***************************************************************************)
(* update_study_streak, called by both handlers.                           *)
(***************************************************************************)
\* GET user_profiles: the row, or the defaults when there is none
GetProfile(p) ==
    /\ pc[p] = "st_get"
    /\ loc' = [loc EXCEPT ![p].update_data =
                  StreakUpdateData(IF profile.found THEN profile
                                   ELSE DefaultProfile, loc[p].st_today)]
    /\ pc' = [pc EXCEPT ![p] = "st_patch"]
    /\ UNCHANGED <<today, reviews, cardStates, analytics, profile,
                   budget, req, resp>>
    /\ UNCHANGED <<studied, genVars, funVars>>

\* PATCH user_profiles by user_id answers 200, also when no row matches
PatchProfile(p) ==
    /\ pc[p] = "st_patch"
    /\ profile' = IF profile.found THEN loc[p].update_data ELSE profile
    /\ studied' = IF profile.found THEN studied \cup {loc[p].st_today}
                  ELSE studied
    /\ Return(p, Created(p))
    /\ UNCHANGED <<today, reviews, cardStates, analytics, budget, genVars, funVars>>

\* the steps of the handlers of process p, with time_taken drawn from times
Steps(p, times) ==
    \/ \E c \in Cards, r \in Ratings, t \in times :
          RejectRating(p, c, r, t) \/ PostReview(p, c, r, t)
    \/ GetCardState(p)
    \/ UpsertCardState(p)
    \/ GetDailyAnalytics(p)
    \/ InitDailyAnalytics(p)
    \/ UpdateDailyAnalytics(p)
    \/ PostInteraction(p)
    \/ GetProfile(p)
    \/ PatchProfile(p)

vars == <<reviewVars, genVars, funVars>>

Init ==
    /\ InitTables /\ InitGen /\ InitFun
    /\ profile = SignupProfile
    /\ budget = MaxRequests

\* one request at a time
Next == Tick \/ Steps(1, TimesTaken)

Spec == Init /\ [][Next]_vars

\* one request at a time, time_taken being any number the request model admits
NextAnyTime == Tick \/ Steps(1, AnyTimesTaken)

SpecAnyTime == Init /\ [][NextAnyTime]_vars

(***************************************************************************)
(* The same handlers when a store call fails: the store answers with an    *)
(* error status, or the call raises.                                       *)
(***************************************************************************)
\* POST flashcard_reviews is answered with an error status, or raises
PostReviewFails(p, c, r, t) ==
    /\ pc[p] = "idle"
    /\ r \in ValidRatings
    /\ resp' = [resp EXCEPT ![p] = ServerError]
    /\ UNCHANGED <<today, reviews, cardStates, analytics, profile, budget,
                   pc, req, loc>>
    /\ UNCHANGED <<studied, genVars, funVars>>

\* get_or_init_card_state returns None on an error status and on an exception
GetCardStateFails(p) ==
    /\ pc[p] = "card_get"
    /\ loc' = [loc EXCEPT ![p].current_state = NoRow, ![p].now = Now]
    /\ pc' = [pc EXCEPT ![p] = "card_put"]
    /\ UNCHANGED <<today, reviews, cardStates, analytics, profile,
                   budget, req, resp>>
    /\ UNCHANGED <<studied, genVars, funVars>>

\* update_card_state raises when its PATCH or POST is not answered 200/201
UpsertCardStateFails(p) ==
    /\ pc[p] = "card_put"
    /\ Return(p, ServerError)
    /\ UNCHANGED <<today, reviews, cardStates, analytics, profile, budget>>
    /\ UNCHANGED <<studied, genVars, funVars>>

\* get_or_init_daily_analytics: the GET is answered with an error status
GetDailyAnalyticsFails(p) ==
    /\ pc[p] = "an_get"
    /\ pc' = [pc EXCEPT ![p] = "an_create"]
    /\ UNCHANGED <<today, reviews, cardStates, analytics, profile,
                   budget, req, loc, resp>>
    /\ UNCHANGED <<studied, genVars, funVars>>

\* get_or_init_daily_analytics: the GET raises; the default structure returned
\* carries an id that names no stored row
GetDailyAnalyticsRaises(p) ==
    /\ pc[p] = "an_get"
    /\ loc' = [loc EXCEPT ![p].an = AnalyticsData, ![p].an_id = NoDate]
    /\ pc' = [pc EXCEPT ![p] = "an_patch"]
    /\ UNCHANGED <<today, reviews, cardStates, analytics, profile,
                   budget, req, resp>>
    /\ UNCHANGED <<studied, genVars, funVars>>

\* get_or_init_daily_analytics: the POST is answered with an error status, or
\* raises
InitDailyAnalyticsFails(p) ==
    /\ pc[p] = "an_create"
    /\ loc' = [loc EXCEPT ![p].an = AnalyticsData, ![p].an_id = NoDate]
    /\ pc' = [pc EXCEPT ![p] = "an_patch"]
    /\ UNCHANGED <<today, reviews, cardStates, analytics, profile,
                   budget, req, resp>>
    /\ UNCHANGED <<studied, genVars, funVars>>

\* update_daily_analytics raises when its PATCH is not answered 200
UpdateDailyAnalyticsFails(p) ==
    /\ pc[p] = "an_patch"
    /\ Return(p, ServerError)
    /\ UNCHANGED <<today, reviews, cardStates, analytics, profile, budget>>
    /\ UNCHANGED <<studied, genVars, funVars>>

\* POST quiz_interactions is answered with an error status, or raises
PostInteractionFails(p) ==
    /\ pc[p] = "idle"
    /\ resp' = [resp EXCEPT ![p] = ServerError]
    /\ UNCHANGED <<today, reviews, cardStates, analytics, profile, budget,
                   pc, req, loc>>
    /\ UNCHANGED <<studied, genVars, funVars>>

\* update_study_streak: the GET is answered with an error status, and the
\* handler goes on with the defaults of a missing profile
GetProfileFails(p) ==
    /\ pc[p] = "st_get"
    /\ loc' = [loc EXCEPT ![p].update_data =
                  StreakUpdateData(DefaultProfile, loc[p].st_today)]
    /\ pc' = [pc EXCEPT ![p] = "st_patch"]
    /\ UNCHANGED <<today, reviews, cardStates, analytics, profile,
                   budget, req, resp>>
    /\ UNCHANGED <<studied, genVars, funVars>>

\* update_study_streak: the GET raises; the exception is caught and logged
GetProfileRaises(p) ==
    /\ pc[p] = "st_get"
    /\ Return(p, Created(p))
    /\ UNCHANGED <<today, reviews, cardStates, analytics, profile, budget>>
    /\ UNCHANGED <<studied, genVars, funVars>>

\* update_study_streak: the PATCH is answered with an error status
PatchProfileFails(p) ==
    /\ pc[p] = "st_patch"
    /\ pc' = [pc EXCEPT ![p] = "st_create"]
    /\ UNCHANGED <<today, reviews, cardStates, analytics, profile,
                   budget, req, loc, resp>>
    /\ UNCHANGED <<studied, genVars, funVars>>

\* update_study_streak: the PATCH raises; the exception is caught and logged
PatchProfileRaises(p) ==
    /\ pc[p] = "st_patch"
    /\ Return(p, Created(p))
    /\ UNCHANGED <<today, reviews, cardStates, analytics, profile, budget>>
    /\ UNCHANGED <<studied, genVars, funVars>>

\* update_study_streak: POST user_profiles after a failed PATCH; the table
\* holds one row per user, so the POST creates the row only when there is none
CreateProfile(p) ==
    /\ pc[p] = "st_create"
    /\ profile' = IF profile.found THEN profile ELSE loc[p].update_data
    /\ studied' = IF profile.found THEN studied
                  ELSE studied \cup {loc[p].st_today}
    /\ Return(p, Created(p))
    /\ UNCHANGED <<today, reviews, cardStates, analytics, budget, genVars, funVars>>

\* update_study_streak: the POST fails too; a warning is printed
CreateProfileFails(p) ==
    /\ pc[p] = "st_create"
    /\ Return(p, Created(p))
    /\ UNCHANGED <<today, reviews, cardStates, analytics, profile, budget>>
    /\ UNCHANGED <<studied, genVars, funVars>>

Faults(p) ==
    \/ \E c \in Cards, r \in Ratings, t \in TimesTaken :
          PostReviewFails(p, c, r, t)
    \/ GetCardStateFails(p)
    \/ UpsertCardStateFails(p)
    \/ GetDailyAnalyticsFails(p)
    \/ GetDailyAnalyticsRaises(p)
    \/ InitDailyAnalyticsFails(p)
    \/ UpdateDailyAnalyticsFails(p)
    \/ PostInteractionFails(p)
    \/ GetProfileFails(p)
    \/ GetProfileRaises(p)
    \/ PatchProfileFails(p)
    \/ PatchProfileRaises(p)
    \/ CreateProfile(p)
    \/ CreateProfileFails(p)

\* sign-up goes on when its POST of the profile row fails, so a user may
\* have no profile row
InitFaulty ==
    /\ InitTables /\ InitGen /\ InitFun
    /\ profile \in {SignupProfile, NoRow}
    /\ budget = MaxFaultyRequests

NextFaulty == Tick \/ Steps(1, TimesTaken) \/ Faults(1)

SpecFaulty == InitFaulty /\ [][NextFaulty]_vars

(***************************************************************************)
(* Quiz answers of one user served concurrently: the study actions that    *)
(* touch nothing but the streak.                                           *)
(***************************************************************************)
InitStreak ==
    /\ InitTables /\ InitGen /\ InitFun
    /\ profile = SignupProfile
    /\ budget = MaxStudyActions

NextStreak ==
    \/ Tick
    \/ \E p \in Procs : PostInteraction(p) \/ GetProfile(p) \/ PatchProfile(p)

SpecStreak == InitStreak /\ [][NextStreak]_vars

(***************************************************************************)
(* The generation endpoints summarize_file, generate_quiz and               *)
(* generate_flashcards behind their cache lookup, and the handlers that     *)
(* edit and delete what they stored.                                        *)
(***************************************************************************)
\* a variant in which no file is without text
TextLenNeverEmpty(f) == IF f = "f2" THEN 5000 ELSE 100

\* the files table: len(text_content.strip()) of each file
TextLen(f) ==
    IF f = "f1" THEN 100
    ELSE IF f = "f2" THEN 5000
    ELSE 0

\* get_file_content finds the file
FileFound(f) == f # "f4"

\* a variant that summarises every text first
UsesSummaryAlways(kind, f) == kind \in {"quiz", "flashcards"}

\* quizzes and flashcards of a long text are generated from its summary
UsesSummary(kind, f) ==
    \/ kind = "quiz" /\ TextLen(f) > 2000
    \/ kind = "flashcards" /\ TextLen(f) > 3000

\* the rows of a table, with where they stand in it
RowAt(kind, id) == {i \in 1..Len(artifacts[kind]) : artifacts[kind][i].id = id}

\* a variant that never finds a row
GetExistingNever(kind, f) == NoRow

\* a variant that looks for the latest row of any file
GetExistingAnyFile(kind, f) ==
    LET rows == artifacts[kind]
    IN IF rows = <<>> THEN NoRow ELSE rows[Len(rows)]

\* get_existing_summary / get_existing_quiz / get_existing_flashcards: the
\* row of the file created last, if any
GetExisting(kind, f) ==
    LET rows == SelectSeq(artifacts[kind],
                          LAMBDA r : r.file_id = f /\ r.user_id = Caller)
    IN IF rows = <<>> THEN NoRow ELSE rows[Len(rows)]

\* the table without the row of this id
Without(rows, id) == SelectSeq(rows, LAMBDA r : r.id # id)

NewRow(f, payload) ==
    [found |-> TRUE, id |-> nextId, user_id |-> Caller, file_id |-> f,
     payload |-> payload]

CachedResponse(row) ==
    [status |-> 200, id |-> row.id, payload |-> row.payload, cached |-> TRUE]

GeneratedResponse(id, payload) ==
    [status |-> 200, id |-> id, payload |-> payload, cached |-> FALSE]

NotFound == [status |-> 404]
Unprocessable == [status |-> 422]
BadGateway == [status |-> 502]
Ok == [status |-> 200]
Forbidden == [status |-> 403]

\* the generation handler returns
GenReturn(p, r) ==
    /\ gpc' = [gpc EXCEPT ![p] = "idle"]
    /\ greq' = [greq EXCEPT ![p] = NoGenReq]
    /\ gloc' = [gloc EXCEPT ![p] = InitGenLoc]
    /\ gresp' = [gresp EXCEPT ![p] = r]

\* what a successful generate call answered first for its file and kind
NoteFirst(p, r) ==
    first' = IF first[greq[p].file_id, greq[p].kind] = NoResp
             THEN [first EXCEPT ![greq[p].file_id, greq[p].kind] = r]
             ELSE first

\* a generate request arrives
GenRequest(p, kind, f) ==
    /\ gpc[p] = "idle"
    /\ nextId <= MaxArtifacts
    /\ greq' = [greq EXCEPT ![p] = [NoGenReq EXCEPT !.op = "generate",
                                                     !.kind = kind,
                                                     !.file_id = f]]
    /\ gloc' = [gloc EXCEPT ![p] = InitGenLoc]
    /\ gresp' = [gresp EXCEPT ![p] = NoResp]
    /\ gpc' = [gpc EXCEPT ![p] = "g_lookup"]
    /\ UNCHANGED <<artifacts, nextId, first, reviewVars, funVars>>

\* the cache lookup: a stored artifact is returned as it is
CacheLookup(p) ==
    /\ gpc[p] = "g_lookup"
    /\ LET row == GetExisting(greq[p].kind, greq[p].file_id)
       IN IF row.found
          THEN /\ GenReturn(p, CachedResponse(row))
               /\ NoteFirst(p, CachedResponse(row))
          ELSE /\ gpc' = [gpc EXCEPT ![p] = "g_file"]
               /\ UNCHANGED <<greq, gloc, gresp, first>>
    /\ UNCHANGED <<artifacts, nextId, reviewVars, funVars>>

\* get_file_content, then the checks of the text
FetchFile(p) ==
    /\ gpc[p] = "g_file"
    /\ LET f == greq[p].file_id
       IN IF ~FileFound(f) THEN GenReturn(p, NotFound)
          ELSE IF TextLen(f) = 0 THEN GenReturn(p, Unprocessable)
          ELSE /\ gpc' = [gpc EXCEPT ![p] =
                      IF greq[p].kind = "summary" THEN "g_summarize"
                      ELSE IF UsesSummary(greq[p].kind, f) THEN "g_summary"
                      ELSE "g_model"]
               /\ UNCHANGED <<greq, gloc, gresp>>
    /\ UNCHANGED <<artifacts, nextId, first, reviewVars, funVars>>

\* a long text: the stored summary stands in for it, if there is one
LookupSummary(p) ==
    /\ gpc[p] = "g_summary"
    /\ LET row == GetExisting("summary", greq[p].file_id)
       IN IF row.found
          THEN /\ gloc' = [gloc EXCEPT ![p].summary_text = row.payload]
               /\ gpc' = [gpc EXCEPT ![p] = "g_model"]
          ELSE /\ gpc' = [gpc EXCEPT ![p] = "g_summarize"]
               /\ UNCHANGED gloc
    /\ UNCHANGED <<artifacts, nextId, greq, gresp, first, reviewVars, funVars>>

\* call_model_for_summarization answers
Summarize(p, text) ==
    /\ gpc[p] = "g_summarize"
    /\ gloc' = [gloc EXCEPT ![p].summary_text = text, ![p].invoked = TRUE]
    /\ gpc' = [gpc EXCEPT ![p] = "g_save_summary"]
    /\ UNCHANGED <<artifacts, nextId, greq, gresp, first, reviewVars, funVars>>

\* call_model_for_summarization raises
SummarizeFails(p) ==
    /\ gpc[p] = "g_summarize"
    /\ \E r \in {BadGateway, ServerError} : GenReturn(p, r)
    /\ UNCHANGED <<artifacts, nextId, first, reviewVars, funVars>>

\* save_summary (after get_file_folder_id, a read of the files table): the
\* summary endpoint returns it, the other two go on with it as their text
SaveSummary(p) ==
    /\ gpc[p] = "g_save_summary"
    /\ artifacts' = [artifacts EXCEPT !["summary"] =
                        Append(@, NewRow(greq[p].file_id, gloc[p].summary_text))]
    /\ nextId' = nextId + 1
    /\ IF greq[p].kind = "summary"
       THEN /\ GenReturn(p, GeneratedResponse(nextId, gloc[p].summary_text))
            /\ NoteFirst(p, GeneratedResponse(nextId, gloc[p].summary_text))
       ELSE /\ gloc' = [gloc EXCEPT ![p].wrote = TRUE]
            /\ gpc' = [gpc EXCEPT ![p] = "g_model"]
            /\ UNCHANGED <<greq, gresp, first>>
    /\ UNCHANGED <<reviewVars, funVars>>

\* call_model_for_quiz_generation / call_model_for_flashcard_generation
\* answers with at least three items
CallModel(p, payload) ==
    /\ gpc[p] = "g_model"
    /\ gloc' = [gloc EXCEPT ![p].payload = payload, ![p].invoked = TRUE]
    /\ gpc' = [gpc EXCEPT ![p] = "g_save"]
    /\ UNCHANGED <<artifacts, nextId, greq, gresp, first, reviewVars, funVars>>

\* the model call raises, or answers with fewer than three items
CallModelFails(p) ==
    /\ gpc[p] = "g_model"
    /\ \E r \in {BadGateway, ServerError} : GenReturn(p, r)
    /\ UNCHANGED <<artifacts, nextId, first, reviewVars, funVars>>

\* a variant that inserts only when the file has no artifact of the kind yet
SaveArtifactIfAbsent(p) ==
    /\ gpc[p] = "g_save"
    /\ LET row == GetExisting(greq[p].kind, greq[p].file_id)
       IN IF row.found
          THEN /\ GenReturn(p, CachedResponse(row))
               /\ NoteFirst(p, CachedResponse(row))
               /\ UNCHANGED <<artifacts, nextId>>
          ELSE /\ artifacts' = [artifacts EXCEPT ![greq[p].kind] =
                      Append(@, NewRow(greq[p].file_id, gloc[p].payload))]
               /\ nextId' = nextId + 1
               /\ GenReturn(p, GeneratedResponse(nextId, gloc[p].payload))
               /\ NoteFirst(p, GeneratedResponse(nextId, gloc[p].payload))
    /\ UNCHANGED <<reviewVars, funVars>>

\* save_quiz / save_flashcards (after get_file_folder_id), and the response
SaveArtifact(p) ==
    /\ gpc[p] = "g_save"
    /\ artifacts' = [artifacts EXCEPT ![greq[p].kind] =
                        Append(@, NewRow(greq[p].file_id, gloc[p].payload))]
    /\ nextId' = nextId + 1
    /\ GenReturn(p, GeneratedResponse(nextId, gloc[p].payload))
    /\ NoteFirst(p, GeneratedResponse(nextId, gloc[p].payload))
    /\ UNCHANGED <<reviewVars, funVars>>

\* update_summary / update_quiz / update_flashcard: a request to replace the
\* payload of the artifact of this id
EditRequest(p, kind, id, payload) ==
    /\ gpc[p] = "idle"
    /\ greq' = [greq EXCEPT ![p] = [NoGenReq EXCEPT !.op = "edit",
                                                     !.kind = kind,
                                                     !.id = id,
                                                     !.payload = payload]]
    /\ gloc' = [gloc EXCEPT ![p] = [InitGenLoc EXCEPT !.id = id]]
    /\ gresp' = [gresp EXCEPT ![p] = NoResp]
    /\ gpc' = [gpc EXCEPT ![p] = "e_verify"]
    /\ UNCHANGED <<artifacts, nextId, first, reviewVars, funVars>>

\* the rows of this id that belong to the caller
OwnRowAt(kind, id) ==
    {i \in RowAt(kind, id) : artifacts[kind][i].user_id = Caller}

\* a variant of the ownership check that lets everything through
RefusalNever(p) == Ok

\* what the ownership check answers when it refuses, Ok when it does not.
\* verify_resource_ownership GETs the row by id: 404 when there is none, 403
\* when its user_id is not the caller's; update_summary GETs by id and
\* user_id: 404 in both cases
Refusal(p) ==
    IF RowAt(greq[p].kind, gloc[p].id) = {} THEN NotFound
    ELSE IF OwnRowAt(greq[p].kind, gloc[p].id) # {} THEN Ok
    ELSE IF greq[p].op = "edit" /\ greq[p].kind = "summary" THEN NotFound
    ELSE Forbidden

\* the ownership check of the edit and delete handlers
VerifyOwnership(p) ==
    /\ gpc[p] \in {"e_verify", "d_verify"}
    /\ IF Refusal(p) = Ok
       THEN /\ gpc' = [gpc EXCEPT ![p] = IF gpc[p] = "e_verify" THEN "e_patch"
                                         ELSE "d_delete"]
            /\ UNCHANGED <<greq, gloc, gresp>>
       ELSE GenReturn(p, Refusal(p))
    /\ UNCHANGED <<artifacts, nextId, first, reviewVars, funVars>>

\* PATCH the payload of the row by id and user_id; a PATCH that matches no row
\* answers with an empty list
PatchArtifact(p) ==
    /\ gpc[p] = "e_patch"
    /\ LET at == OwnRowAt(greq[p].kind, gloc[p].id)
       IN IF at # {}
          THEN /\ artifacts' = [artifacts EXCEPT ![greq[p].kind] =
                      [i \in 1..Len(@) |->
                          IF i \in at
                          THEN [@[i] EXCEPT !.payload = greq[p].payload]
                          ELSE @[i]]]
               /\ GenReturn(p, Ok)
          ELSE /\ GenReturn(p, IF greq[p].kind = "summary" THEN ServerError
                               ELSE NotFound)
               /\ UNCHANGED artifacts
    /\ UNCHANGED <<nextId, first, reviewVars, funVars>>

\* delete_file_summary / delete_file_quiz / delete_file_flashcards: a request
\* to delete the artifact of a file
DeleteRequest(p, kind, f) ==
    /\ gpc[p] = "idle"
    /\ greq' = [greq EXCEPT ![p] = [NoGenReq EXCEPT !.op = "delete",
                                                     !.kind = kind,
                                                     !.file_id = f]]
    /\ gloc' = [gloc EXCEPT ![p] = InitGenLoc]
    /\ gresp' = [gresp EXCEPT ![p] = NoResp]
    /\ gpc' = [gpc EXCEPT ![p] = "d_lookup"]
    /\ UNCHANGED <<artifacts, nextId, first, reviewVars, funVars>>

\* the delete handler looks the artifact up as the generate handler does
DeleteLookup(p) ==
    /\ gpc[p] = "d_lookup"
    /\ LET row == GetExisting(greq[p].kind, greq[p].file_id)
       IN IF row.found
          THEN /\ gloc' = [gloc EXCEPT ![p].id = row.id]
               /\ gpc' = [gpc EXCEPT ![p] = "d_verify"]
               /\ UNCHANGED <<greq, gresp>>
          ELSE GenReturn(p, NotFound)
    /\ UNCHANGED <<artifacts, nextId, first, reviewVars, funVars>>

\* delete_resource: DELETE the row by id
DeleteResource(p) ==
    /\ gpc[p] = "d_delete"
    /\ artifacts' = [artifacts EXCEPT ![greq[p].kind] = Without(@, gloc[p].id)]
    /\ first' = [f \in Files, k \in Kinds |->
                    IF k = greq[p].kind
                       /\ \E i \in RowAt(k, gloc[p].id) :
                             artifacts[k][i].file_id = f
                    THEN NoResp ELSE first[f, k]]
    /\ GenReturn(p, Ok)
    /\ UNCHANGED <<nextId, reviewVars, funVars>>

\* the steps of the generation, edit and delete handlers of process p
GenSteps(p) ==
    \/ \E kind \in Kinds, f \in Files : GenRequest(p, kind, f)
    \/ CacheLookup(p)
    \/ FetchFile(p)
    \/ LookupSummary(p)
    \/ \E text \in ModelPayloads : Summarize(p, text)
    \/ SummarizeFails(p)
    \/ SaveSummary(p)
    \/ \E payload \in ModelPayloads : CallModel(p, payload)
    \/ CallModelFails(p)
    \/ SaveArtifact(p)
    \/ \E kind \in Kinds, id \in 1..MaxArtifacts, payload \in EditPayloads :
          EditRequest(p, kind, id, payload)
    \/ VerifyOwnership(p)
    \/ PatchArtifact(p)
    \/ \E kind \in Kinds, f \in Files : DeleteRequest(p, kind, f)
    \/ DeleteLookup(p)
    \/ DeleteResource(p)

InitGeneration ==
    /\ InitTables /\ InitGen /\ InitFun
    /\ profile = SignupProfile
    /\ budget = 0

\* one request at a time
NextGen == GenSteps(1)

SpecGen == InitGeneration /\ [][NextGen]_vars

(***************************************************************************)
(* Flashcard reviews of one user served concurrently, within one day.      *)
(***************************************************************************)
InitCardRace ==
    /\ InitTables /\ InitGen /\ InitFun
    /\ profile = SignupProfile
    /\ budget = MaxRaceReviews

NextCardRace ==
    \E p \in Procs :
        \/ \E c \in Cards, r \in ValidRatings, t \in TimesTaken :
              PostReview(p, c, r, t)
        \/ GetCardState(p)
        \/ UpsertCardState(p)
        \/ GetDailyAnalytics(p)
        \/ InitDailyAnalytics(p)
        \/ UpdateDailyAnalytics(p)
        \/ GetProfile(p)
        \/ PatchProfile(p)

SpecCardRace == InitCardRace /\ [][NextCardRace]_vars

(***************************************************************************)
(* Generate requests of one user served concurrently.                      *)
(***************************************************************************)
NextGenRace ==
    \E p \in Procs :
        \/ \E kind \in Kinds, f \in Files : GenRequest(p, kind, f)
        \/ CacheLookup(p)
        \/ FetchFile(p)
        \/ LookupSummary(p)
        \/ \E text \in ModelPayloads : Summarize(p, text)
        \/ SaveSummary(p)
        \/ \E payload \in ModelPayloads : CallModel(p, payload)
        \/ SaveArtifact(p)

SpecGenRace == InitGeneration /\ [][NextGenRace]_vars

(***************************************************************************)
(* One call of a validator on a parsed list.                               *)
(***************************************************************************)
ValidateQuiz ==
    /\ val.fn = "quiz" /\ ~val.returned
    /\ val' = [val EXCEPT !.returned = TRUE,
                          !.result = validate_quiz_json(val.data)]
    /\ UNCHANGED <<reviewVars, genVars, casc, chk>>

ValidateFlashcards ==
    /\ val.fn = "flashcards" /\ ~val.returned
    /\ val' = [val EXCEPT !.returned = TRUE,
                          !.result = validate_flashcard_json(val.data)]
    /\ UNCHANGED <<reviewVars, genVars, casc, chk>>

InitValidate ==
    /\ InitTables /\ InitGen
    /\ profile = SignupProfile
    /\ budget = 0
    /\ casc = IdleCascade
    /\ chk = IdleChunker
    /\ InitVal

NextValidate == ValidateQuiz \/ ValidateFlashcards

SpecValidate == InitValidate /\ [][NextValidate]_vars

(***************************************************************************)
(* chunk_text.  A text is a sequence of characters; positions are counted  *)
(* from 0 as the code counts them.                                         *)
(***************************************************************************)
\* a letter, a full stop, a space and a line feed
Chars == {"a", ".", " ", "\n"}

sentence_endings ==
    <<(<<".", " ">>), (<<"!", " ">>), (<<"?", " ">>), (<<"\n", "\n">>),
      (<<"\n">>), (<<".">>), (<<"!">>), (<<"?">>)>>

paragraph_breaks == <<(<<"\n", "\n">>), (<<"\n">>)>>

\* text[i:i + len(sub)] == sub
OccursAt(text, sub, i) ==
    /\ i >= 0 /\ i + Len(sub) <= Len(text)
    /\ \A k \in 1..Len(sub) : text[i + k] = sub[k]

\* text.rfind(sub, from, to): the last place from which sub lies within
\* text[from:to], or -1
rfind(text, sub, from, to) ==
    IF \E i \in from..(to - Len(sub)) : OccursAt(text, sub, i)
    THEN CHOOSE i \in from..(to - Len(sub)) :
            /\ OccursAt(text, sub, i)
            /\ \A j \in (i + 1)..(to - Len(sub)) : ~OccursAt(text, sub, j)
    ELSE -1

\* max(start, end - 300)
SearchStart(start, end) ==
    IF start >= end - SearchWindow THEN start ELSE end - SearchWindow

\* the k-th entry of the list occurs in the window, after start
Found(text, endings, k, start, end) ==
    rfind(text, endings[k], SearchStart(start, end), end) > start

\* the loops try the entries in order and stop at the first one found
FirstFound(text, endings, start, end) ==
    IF \E k \in 1..Len(endings) : Found(text, endings, k, start, end)
    THEN CHOOSE k \in 1..Len(endings) :
            /\ Found(text, endings, k, start, end)
            /\ \A j \in 1..(k - 1) : ~Found(text, endings, j, start, end)
    ELSE 0

\* the first loop: best_break after the sentence ending
AfterEnding(ending, last_ending) ==
    IF ending[Len(ending)] = " " THEN last_ending + Len(ending)
    ELSE last_ending + 1

SentenceBreakAt(text, k, start, end) ==
    IF k = 0 THEN end
    ELSE AfterEnding(sentence_endings[k],
                     rfind(text, sentence_endings[k],
                           SearchStart(start, end), end))

SentenceBreak(text, start, end) ==
    SentenceBreakAt(text, FirstFound(text, sentence_endings, start, end),
                    start, end)

\* the second loop, entered when best_break is still end
ParagraphBreakAt(text, k, start, end) ==
    IF k = 0 THEN end
    ELSE rfind(text, paragraph_breaks[k], SearchStart(start, end), end)
            + Len(paragraph_breaks[k])

ParagraphBreak(text, start, end) ==
    ParagraphBreakAt(text, FirstFound(text, paragraph_breaks, start, end),
                     start, end)

\* a variant that cuts in front of the ending it found, and accepts an ending
\* at the very start of the segment
BestBreakBeforeEnding(text, start, end) ==
    IF \E k \in 1..Len(sentence_endings) :
          rfind(text, sentence_endings[k], start, end) >= start
    THEN rfind(text,
               sentence_endings[
                   CHOOSE k \in 1..Len(sentence_endings) :
                      /\ rfind(text, sentence_endings[k], start, end) >= start
                      /\ \A j \in 1..(k - 1) :
                            rfind(text, sentence_endings[j], start, end) < start],
               start, end)
    ELSE end

\* the cut point of a segment that does not reach the end of the text
BestBreak(text, start, end) ==
    IF SentenceBreak(text, start, end) = end
    THEN ParagraphBreak(text, start, end)
    ELSE SentenceBreak(text, start, end)

IsSpace(c) == c \in {" ", "\n"}

\* the character at place i is not white space
Inked(text, i) == i < Len(text) /\ ~IsSpace(text[i + 1])

\* a variant that also strips the full stops from the ends
StripPunctuation(text, from, to) ==
    LET inked == {i \in from..(to - 1) :
                     i < Len(text) /\ text[i + 1] \notin {" ", "\n", "."}}
    IN IF inked = {} THEN <<>>
       ELSE SubSeq(text, 1 + (CHOOSE i \in inked : \A j \in inked : i <= j),
                   1 + (CHOOSE i \in inked : \A j \in inked : i >= j))

\* text[from:to].strip()
Strip(text, from, to) ==
    IF \E i \in from..(to - 1) : Inked(text, i)
    THEN SubSeq(text,
                1 + (CHOOSE i \in from..(to - 1) :
                        /\ Inked(text, i)
                        /\ \A j \in from..(i - 1) : ~Inked(text, j)),
                1 + (CHOOSE i \in from..(to - 1) :
                        /\ Inked(text, i)
                        /\ \A j \in (i + 1)..(to - 1) : ~Inked(text, j)))
    ELSE <<>>

\* chunk_text is called with a text and max_chars
ChunkCall ==
    /\ chk.pc = "idle"
    /\ \E t \in Lists(Chars, MaxTextLen), m \in 1..MaxChars :
          chk' = [pc |-> "called", text |-> t, max_chars |-> m, start |-> 0,
                  end |-> 0, chunks |-> <<>>]
    /\ UNCHANGED <<reviewVars, genVars, casc, val>>

\* a text that fits is returned as it is
ChunkWhole ==
    /\ chk.pc = "called"
    /\ Len(chk.text) <= chk.max_chars
    /\ chk' = [chk EXCEPT !.pc = "returned", !.chunks = <<chk.text>>]
    /\ UNCHANGED <<reviewVars, genVars, casc, val>>

\* a longer text enters the loop
ChunkEnter ==
    /\ chk.pc = "called"
    /\ Len(chk.text) > chk.max_chars
    /\ chk' = [chk EXCEPT !.pc = "loop"]
    /\ UNCHANGED <<reviewVars, genVars, casc, val>>

\* a variant of the iteration that appends the chunk without testing it
ChunkStepKeepsEmpty ==
    /\ chk.pc = "loop"
    /\ chk.start < Len(chk.text)
    /\ \E end \in {IF chk.start + chk.max_chars < Len(chk.text)
                    THEN BestBreak(chk.text, chk.start,
                                   chk.start + chk.max_chars)
                    ELSE chk.start + chk.max_chars} :
          chk' = [chk EXCEPT !.end = end, !.start = end,
                             !.chunks = Append(@, Strip(chk.text, chk.start,
                                                        end))]
    /\ UNCHANGED <<reviewVars, genVars, casc, val>>

\* one iteration of the loop
ChunkStep ==
    /\ chk.pc = "loop"
    /\ chk.start < Len(chk.text)
    /\ \E end \in {IF chk.start + chk.max_chars < Len(chk.text)
                    THEN BestBreak(chk.text, chk.start,
                                   chk.start + chk.max_chars)
                    ELSE chk.start + chk.max_chars} :
         \E chunk \in {Strip(chk.text, chk.start, end)} :
            chk' = [chk EXCEPT !.end = end, !.start = end,
                               !.chunks = IF chunk # <<>>
                                          THEN Append(@, chunk) ELSE @]
    /\ UNCHANGED <<reviewVars, genVars, casc, val>>

\* the loop is left
ChunkReturn ==
    /\ chk.pc = "loop"
    /\ chk.start >= Len(chk.text)
    /\ chk' = [chk EXCEPT !.pc = "returned"]
    /\ UNCHANGED <<reviewVars, genVars, casc, val>>

InitChunk ==
    /\ InitTables /\ InitGen
    /\ profile = SignupProfile
    /\ budget = 0
    /\ casc = IdleCascade
    /\ val = IdleVal
    /\ chk = IdleChunker

\* the body of chunk_text
ChunkRuns == ChunkWhole \/ ChunkEnter \/ ChunkStep \/ ChunkReturn

NextChunk == ChunkCall \/ ChunkRuns

\* a call that has begun keeps running
SpecChunk == InitChunk /\ [][NextChunk]_vars /\ WF_vars(ChunkRuns)

(***************************************************************************)
(* The generation cascade: call_model_for_summarization,                   *)
(* call_model_for_quiz_generation, call_model_for_flashcard_generation,    *)
(* and the end of the endpoint that called them.                           *)
(*                                                                         *)
(* A text is non-empty; the heuristic generators read from it the number   *)
(* of segments longer than 20 characters (sentences), how many of them     *)
(* have more than 5 words (wordy) and how many frequent long words occur   *)
(* in some sentence (keywords).  The summarizers receive its chunks.       *)
(***************************************************************************)
Texts ==
    {[sentences |-> n, wordy |-> w, keywords |-> k] :
        n \in 0..MaxSentences, w \in 0..MaxSentences, k \in 0..1}

\* what a text can be: a word occurs in a sentence only where there is one
IsText(text) ==
    /\ text.wordy <= text.sentences
    /\ text.sentences = 0 => text.keywords = 0

\* the values of the query parameters: question_count (ge=4), count (ge=5)
QuestionCounts == {4}
Counts == {5, 10}

\* the order of the backends
Tiers == <<"groq", "local", "hf", "heuristic">>

Min(a, b) == IF a <= b THEN a ELSE b

\* the questions and cards the heuristic generators write
HeuristicQuestion ==
    [is_dict |-> TRUE, has_keys |-> TRUE, question_len |-> 30,
     padded |-> FALSE, options |-> 4, answer_index |-> 0]

HeuristicCard ==
    [is_dict |-> TRUE, has_keys |-> TRUE, front_len |-> 20, back_len |-> 21,
     padded |-> FALSE]

\* _generate_fallback_quiz pads to question_count and cuts there
_generate_fallback_quiz(text, question_count) ==
    [n \in 1..question_count |-> HeuristicQuestion]

\* the number of cards after strategies 1 and 2
CardsOfStrategies(text, count) ==
    LET strategy1 == Min(text.wordy, count)
    IN IF strategy1 < Min(5, count)
       THEN strategy1 + Min(text.keywords, count - strategy1)
       ELSE strategy1

\* the last loop adds one card a sentence while sentences remain, and leaves
\* after the first "Main topic" card
FallbackCardCount(text, count) ==
    LET cards == CardsOfStrategies(text, count)
    IN IF cards < Min(5, count)
       THEN Min(count, Min(Min(5, count), Max(cards, text.sentences) + 1))
       ELSE Min(count, cards)

_generate_fallback_flashcards(text, count) ==
    [n \in 1..FallbackCardCount(text, count) |-> HeuristicCard]

\* what the hosted LLM may answer with: lists of good and malformed elements
AnsweredQuizzes ==
    Lists({GoodQuestion, [GoodQuestion EXCEPT !.options = 2,
                                              !.answer_index = 0]}, MaxItems)

AnsweredFlashcards ==
    Lists({GoodCard, [GoodCard EXCEPT !.back_len = 0]}, MaxItems)

Answers(task) ==
    IF task = "quiz" THEN AnsweredQuizzes ELSE AnsweredFlashcards

\* validate_quiz_json or validate_flashcard_json, as the task asks
ValidatedAnswer(task, data) ==
    IF task = "quiz" THEN validate_quiz_json(data)
    ELSE validate_flashcard_json(data)

\* the heuristic generator of the task
Fallback(c) ==
    IF c.task = "quiz" THEN _generate_fallback_quiz(c.text, c.count)
    ELSE _generate_fallback_flashcards(c.text, c.count)

\* the generator answers: the heuristic tier produced the result
WithFallback(c) ==
    [c EXCEPT !.pc = "endpoint",
              !.attempted = Append(@, "heuristic"),
              !.source = "heuristic",
              !.result = Fallback(c)]

\* an endpoint calls the cascade of its task
CascadeCall ==
    /\ casc.pc = "idle"
    /\ \E task \in Kinds, groq_key \in BOOLEAN, hf_key \in BOOLEAN :
          \/ /\ task = "summary"
             /\ \E n \in 1..MaxChunks :
                   casc' = [casc EXCEPT !.pc = "top", !.task = task,
                                        !.groq_key = groq_key,
                                        !.hf_key = hf_key, !.chunks = n]
          \/ /\ task = "quiz"
             /\ \E question_count \in QuestionCounts :
                   casc' = [casc EXCEPT !.pc = "top", !.task = task,
                                        !.groq_key = groq_key,
                                        !.hf_key = hf_key,
                                        !.count = question_count]
          \/ /\ task = "flashcards"
             /\ \E text \in Texts, count \in Counts :
                   /\ IsText(text)
                   /\ casc' = [casc EXCEPT !.pc = "top", !.task = task,
                                           !.groq_key = groq_key,
                                           !.hf_key = hf_key,
                                           !.text = text, !.count = count]
    /\ UNCHANGED <<reviewVars, genVars, val, chk>>

\* no GROQ_API_KEY: the hosted LLM is passed over
SkipGroq ==
    /\ casc.pc = "top"
    /\ ~casc.groq_key
    /\ casc' = [casc EXCEPT !.pc = "local"]
    /\ UNCHANGED <<reviewVars, genVars, val, chk>>

\* quiz and flashcards: the hosted LLM answers 200 with a list; the validated
\* list is returned, and the heuristic generator is called when there is none
GroqAnswers ==
    /\ casc.pc = "top"
    /\ casc.groq_key
    /\ casc.task \in {"quiz", "flashcards"}
    /\ \E data \in Answers(casc.task) :
          \E validated \in {ValidatedAnswer(casc.task, data)} :
             LET called == [casc EXCEPT !.attempted = Append(@, "groq"),
                                        !.answered = TRUE, !.output = data]
             IN casc' = IF validated.ok
                        THEN [called EXCEPT !.pc = "endpoint",
                                            !.source = "groq",
                                            !.result = validated.items]
                        ELSE WithFallback([called EXCEPT
                                              !.failed = @ \cup {"groq"}])
    /\ UNCHANGED <<reviewVars, genVars, val, chk>>

\* quiz and flashcards: the hosted LLM answers with another status, or with
\* no choices: the heuristic generator is called
GroqRefuses ==
    /\ casc.pc = "top"
    /\ casc.groq_key
    /\ casc.task \in {"quiz", "flashcards"}
    /\ casc' = WithFallback([casc EXCEPT !.attempted = Append(@, "groq"),
                                         !.failed = @ \cup {"groq"}])
    /\ UNCHANGED <<reviewVars, genVars, val, chk>>

\* the request to the hosted LLM times out or raises: the error is caught
\* at the top and the local model is next
GroqRaises ==
    /\ casc.pc \in {"top", "groq_loop"}
    /\ casc.groq_key
    /\ casc.pc = "top" => casc.task \in {"quiz", "flashcards"}
    /\ casc' = [casc EXCEPT !.pc = "local",
                            !.attempted = IF casc.pc = "top"
                                          THEN Append(@, "groq") ELSE @,
                            !.failed = @ \cup {"groq"},
                            !.i = 0, !.parts = <<>>]
    /\ UNCHANGED <<reviewVars, genVars, val, chk>>

\* summaries: the hosted LLM is asked chunk by chunk
GroqSummarize ==
    /\ casc.pc = "top"
    /\ casc.groq_key
    /\ casc.task = "summary"
    /\ casc' = [casc EXCEPT !.pc = "groq_loop", !.i = 1,
                            !.attempted = Append(@, "groq")]
    /\ UNCHANGED <<reviewVars, genVars, val, chk>>

\* the summary of a chunk, or its first 200 characters when the answer has
\* another status or no choices
GroqChunk ==
    /\ casc.pc = "groq_loop"
    /\ casc.i <= casc.chunks
    /\ \E ok \in BOOLEAN :
          casc' = [casc EXCEPT !.i = @ + 1,
                               !.parts = Append(@, IF ok THEN "groq"
                                                   ELSE "truncation"),
                               !.failed = IF ok THEN @ ELSE @ \cup {"groq"}]
    /\ UNCHANGED <<reviewVars, genVars, val, chk>>

\* the chunk summaries are combined and returned
GroqCombine ==
    /\ casc.pc = "groq_loop"
    /\ casc.i > casc.chunks
    /\ casc' = [casc EXCEPT !.pc = "endpoint", !.source = "groq",
                            !.result = casc.parts]
    /\ UNCHANGED <<reviewVars, genVars, val, chk>>

\* quiz and flashcards: the local tier holds no model and calls the heuristic
\* generator
LocalModel ==
    /\ casc.pc = "local"
    /\ casc.task \in {"quiz", "flashcards"}
    /\ casc' = WithFallback([casc EXCEPT !.attempted = Append(@, "local")])
    /\ UNCHANGED <<reviewVars, genVars, val, chk>>

\* summaries: the local pipeline is loaded
LocalSummarize ==
    /\ casc.pc = "local"
    /\ casc.task = "summary"
    /\ casc' = [casc EXCEPT !.pc = "local_loop", !.i = 1,
                            !.attempted = Append(@, "local")]
    /\ UNCHANGED <<reviewVars, genVars, val, chk>>

\* the summary of a chunk, or its first 200 characters when the pipeline
\* raises on it
LocalChunk ==
    /\ casc.pc = "local_loop"
    /\ casc.i <= casc.chunks
    /\ \E ok \in BOOLEAN :
          casc' = [casc EXCEPT !.i = @ + 1,
                               !.parts = Append(@, IF ok THEN "local"
                                                   ELSE "truncation"),
                               !.failed = IF ok THEN @ ELSE @ \cup {"local"}]
    /\ UNCHANGED <<reviewVars, genVars, val, chk>>

LocalCombine ==
    /\ casc.pc = "local_loop"
    /\ casc.i > casc.chunks
    /\ casc' = [casc EXCEPT !.pc = "endpoint", !.source = "local",
                            !.result = casc.parts]
    /\ UNCHANGED <<reviewVars, genVars, val, chk>>

\* the import, the pipeline or the last call raises: _simple_text_summary
\* writes the summary from the chunks
LocalRaises ==
    /\ \/ casc.pc = "local" /\ casc.task = "summary"
       \/ casc.pc = "local_loop"
    /\ casc' = [casc EXCEPT !.pc = "endpoint",
                            !.attempted = (IF casc.pc = "local"
                                           THEN Append(@, "local") ELSE @)
                                          \o <<"heuristic">>,
                            !.failed = @ \cup {"local"},
                            !.source = "heuristic",
                            !.result = <<"heuristic">>]
    /\ UNCHANGED <<reviewVars, genVars, val, chk>>

\* the endpoint refuses a list of fewer than 3 elements with 502, and saves
\* and returns anything else
EndpointReturns ==
    /\ casc.pc = "endpoint"
    /\ casc' = IF casc.task \in {"quiz", "flashcards"} /\ Len(casc.result) < 3
               THEN [casc EXCEPT !.pc = "returned", !.status = 502]
               ELSE [casc EXCEPT !.pc = "returned", !.status = 200,
                                 !.saved = TRUE]
    /\ UNCHANGED <<reviewVars, genVars, val, chk>>

InitCascade ==
    /\ InitTables /\ InitGen
    /\ profile = SignupProfile
    /\ budget = 0
    /\ InitFun

NextCascade ==
    \/ CascadeCall \/ SkipGroq
    \/ GroqAnswers \/ GroqRefuses \/ GroqRaises
    \/ GroqSummarize \/ GroqChunk \/ GroqCombine
    \/ LocalModel
    \/ LocalSummarize \/ LocalChunk \/ LocalCombine \/ LocalRaises
    \/ EndpointReturns

SpecCascade == InitCascade /\ [][NextCascade]_vars

(***************************************************************************)
(* The questions of the stored quizzes: what the payloads stand for, and   *)
(* the requests that write them.                                           *)
(***************************************************************************)
\* the bodies of PUT /quiz/{quiz_id}: a well-formed list of questions, and one
\* whose question has 2 options and answer_index 4
QuizEditPayloads == {"e1", "e2"}

\* the questions a payload holds: "m1" is a list the hosted LLM answered and
\* validate_quiz_json let through, "m2" the list of the heuristic generator
QuizOf(payload) ==
    CASE payload = "m1" ->
            validate_quiz_json(<<GoodQuestion, GoodQuestion,
                                 [GoodQuestion EXCEPT !.options = 2,
                                                      !.answer_index = 0],
                                 GoodQuestion>>).items
      [] payload = "m2" -> _generate_fallback_quiz(IdleCascade.text, 4)
      [] payload = "e1" ->
            <<GoodQuestion, [GoodQuestion EXCEPT !.options = 3,
                                                 !.answer_index = 2]>>
      [] payload = "e2" ->
            <<GoodQuestion, [GoodQuestion EXCEPT !.options = 2,
                                                 !.answer_index = 4]>>

\* quizzes are generated and edited, one request at a time
NextQuizEdit ==
    \/ \E f \in Files : GenRequest(1, "quiz", f)
    \/ CacheLookup(1)
    \/ FetchFile(1)
    \/ LookupSummary(1)
    \/ \E text \in ModelPayloads : Summarize(1, text)
    \/ SaveSummary(1)
    \/ \E payload \in ModelPayloads : CallModel(1, payload)
    \/ SaveArtifact(1)
    \/ \E id \in 1..MaxArtifacts, payload \in QuizEditPayloads :
          EditRequest(1, "quiz", id, payload)
    \/ VerifyOwnership(1)
    \/ PatchArtifact(1)

SpecQuizEdit == InitGeneration /\ [][NextQuizEdit]_vars

(***************************************************************************)
(* Requests that name an artifact by its id: the edit and delete handlers  *)
(* and record_flashcard_review, among artifacts of the caller and of       *)
(* another user.                                                           *)
(***************************************************************************)
\* the ids named by the requests: of a row of the caller, of a row of the
\* other user, and ids of no row
OwnershipIds == 1..(MaxArtifacts + 1)

\* every table holds an artifact of the caller and one of another user
InitOwnership ==
    /\ InitTables /\ InitFun
    /\ profile = SignupProfile
    /\ budget = MaxOwnedReviews
    /\ artifacts = [k \in Kinds |->
                       <<[found |-> TRUE, id |-> 1, user_id |-> Caller,
                          file_id |-> "f1", payload |-> "m1"],
                         [found |-> TRUE, id |-> 2, user_id |-> Stranger,
                          file_id |-> "f1", payload |-> "m2"]>>]
    /\ nextId = 3
    /\ gpc = [p \in Procs |-> "idle"]
    /\ greq = [p \in Procs |-> NoGenReq]
    /\ gloc = [p \in Procs |-> InitGenLoc]
    /\ gresp = [p \in Procs |-> NoResp]
    /\ first = [f \in Files, k \in Kinds |-> NoResp]

\* DELETE /summary/{id}, /quiz/{id}, /flashcard/{id}
DeleteByIdRequest(p, kind, id) ==
    /\ gpc[p] = "idle"
    /\ greq' = [greq EXCEPT ![p] = [NoGenReq EXCEPT !.op = "delete",
                                                     !.kind = kind,
                                                     !.id = id]]
    /\ gloc' = [gloc EXCEPT ![p] = [InitGenLoc EXCEPT !.id = id]]
    /\ gresp' = [gresp EXCEPT ![p] = NoResp]
    /\ gpc' = [gpc EXCEPT ![p] = "d_verify"]
    /\ UNCHANGED <<artifacts, nextId, first, reviewVars, funVars>>

\* record_flashcard_review is called for a flashcard set with a valid rating
ReviewOfSet(p, id, c, r, t) ==
    /\ pc[p] = "idle" /\ budget > 0
    /\ r \in ValidRatings
    /\ budget' = budget - 1
    /\ req' = [req EXCEPT ![p] = [op |-> "review", flashcard_set_id |-> id,
                                  flashcard_id |-> c, rating |-> r,
                                  time_taken |-> t]]
    /\ loc' = [loc EXCEPT ![p] = InitLoc]
    /\ pc' = [pc EXCEPT ![p] = "set_verify"]
    /\ resp' = [resp EXCEPT ![p] = NoResp]
    /\ UNCHANGED <<today, reviews, cardStates, analytics, profile>>
    /\ UNCHANGED <<studied, genVars, funVars>>

\* verify_resource_ownership(flashcard_set_id, "flashcards", user): 404 when
\* no row has the id, 403 when the row is another user's
SetRefusal(id) ==
    IF RowAt("flashcards", id) = {} THEN NotFound
    ELSE IF OwnRowAt("flashcards", id) = {} THEN Forbidden
    ELSE Ok

\* the set is verified, and the review is POSTed when it is the caller's
VerifySet(p) ==
    /\ pc[p] = "set_verify"
    /\ IF SetRefusal(req[p].flashcard_set_id) = Ok
       THEN /\ reviews' = Append(reviews,
                                 [flashcard_id |-> req[p].flashcard_id,
                                  rating |-> req[p].rating,
                                  time_taken |-> req[p].time_taken])
            /\ pc' = [pc EXCEPT ![p] = "card_get"]
            /\ UNCHANGED <<req, loc, resp>>
       ELSE /\ Return(p, SetRefusal(req[p].flashcard_set_id))
            /\ UNCHANGED reviews
    /\ UNCHANGED <<today, cardStates, analytics, profile, budget>>
    /\ UNCHANGED <<studied, genVars, funVars>>

NextOwnership ==
    \/ \E kind \in Kinds, id \in OwnershipIds, payload \in EditPayloads :
          EditRequest(1, kind, id, payload)
    \/ \E kind \in Kinds, id \in OwnershipIds : DeleteByIdRequest(1, kind, id)
    \/ VerifyOwnership(1)
    \/ PatchArtifact(1)
    \/ DeleteResource(1)
    \/ \E id \in OwnershipIds, c \in Cards, r \in ValidRatings,
          t \in TimesTaken : ReviewOfSet(1, id, c, r, t)
    \/ VerifySet(1)
    \/ GetCardState(1)
    \/ UpsertCardState(1)
    \/ GetDailyAnalytics(1)
    \/ InitDailyAnalytics(1)
    \/ UpdateDailyAnalytics(1)
    \/ PostInteraction(1)
    \/ GetProfile(1)
    \/ PatchProfile(1)

SpecOwnership == InitOwnership /\ [][NextOwnership]_vars

(***************************************************************************)
(* get_flashcard_daily_analytics, next to the reviews it reports on.  The   *)
(* flashcard_reviews table stamps each row with the day it was inserted.    *)
(***************************************************************************)
\* POST flashcard_reviews succeeds; the row carries the day of its insertion
PostReviewToday(p, c, r, t) ==
    /\ pc[p] = "idle" /\ budget > 0
    /\ r \in ValidRatings
    /\ budget' = budget - 1
    /\ req' = [req EXCEPT ![p] = [op |-> "review", flashcard_id |-> c,
                                  rating |-> r, time_taken |-> t]]
    /\ reviews' = Append(reviews, [flashcard_id |-> c, rating |-> r,
                                   time_taken |-> t, created_at |-> today])
    /\ loc' = [loc EXCEPT ![p] = InitLoc]
    /\ pc' = [pc EXCEPT ![p] = "card_get"]
    /\ resp' = [resp EXCEPT ![p] = NoResp]
    /\ UNCHANGED <<today, cardStates, analytics, profile>>
    /\ UNCHANGED <<studied, genVars, funVars>>

\* GET /flashcards/analytics/daily calls get_or_init_daily_analytics
ReadDailyAnalytics(p) ==
    /\ pc[p] = "idle" /\ budget > 0
    /\ budget' = budget - 1
    /\ req' = [req EXCEPT ![p] = [NoReq EXCEPT !.op = "analytics"]]
    /\ loc' = [loc EXCEPT ![p] = [InitLoc EXCEPT !.an_today = today]]
    /\ pc' = [pc EXCEPT ![p] = "an_get"]
    /\ resp' = [resp EXCEPT ![p] = NoResp]
    /\ UNCHANGED <<today, reviews, cardStates, analytics, profile>>
    /\ UNCHANGED <<studied, genVars, funVars>>

\* the endpoint answers 200 with the counters get_or_init_daily_analytics
\* returned
ReturnDailyAnalytics(p) ==
    /\ pc[p] = "an_patch" /\ req[p].op = "analytics"
    /\ Return(p, [status |-> 200, analytics |-> loc[p].an])
    /\ UNCHANGED <<today, reviews, cardStates, analytics, profile, budget>>
    /\ UNCHANGED <<studied, genVars, funVars>>

\* midnight passes between two requests
TickBetweenRequests == (\A p \in Procs : pc[p] = "idle") /\ Tick

InitReadAnalytics ==
    /\ InitTables /\ InitGen /\ InitFun
    /\ profile = SignupProfile
    /\ budget = MaxRequests

NextReadAnalytics ==
    \/ TickBetweenRequests
    \/ \E c \in Cards, r \in Ratings, t \in TimesTaken :
          RejectRating(1, c, r, t) \/ PostReviewToday(1, c, r, t)
    \/ GetCardState(1)
    \/ UpsertCardState(1)
    \/ ReadDailyAnalytics(1)
    \/ GetDailyAnalytics(1)
    \/ InitDailyAnalytics(1)
    \/ (req[1].op = "review" /\ UpdateDailyAnalytics(1))
    \/ ReturnDailyAnalytics(1)
    \/ GetProfile(1)
    \/ PatchProfile(1)

SpecReadAnalytics == InitReadAnalytics /\ [][NextReadAnalytics]_vars

(***************************************************************************)
(* Quiz answers of one user, one after another, when the read of the       *)
(* profile may fail.                                                       *)
(***************************************************************************)
InitStreakFaulty ==
    /\ InitTables /\ InitGen /\ InitFun
    /\ profile = SignupProfile
    /\ budget = MaxStudyActions

NextStreakFaulty ==
    \/ Tick
    \/ PostInteraction(1)
    \/ GetProfile(1)
    \/ GetProfileFails(1)
    \/ GetProfileRaises(1)
    \/ PatchProfile(1)

SpecStreakFaulty == InitStreakFaulty /\ [][NextStreakFaulty]_vars

(***************************************************************************)
(* Properties of the review engine.                                        *)
(***************************************************************************)
\* the step of handler p that writes the card state
WritesCardState(p) == pc[p] = "card_put" /\ pc'[p] = "an_get"

\* the step of handler p that writes the daily analytics
WritesAnalytics(p) == pc[p] = "an_patch" /\ pc'[p] = "st_get"

\* the step of handler p that reads the profile for the streak
ReadsProfile(p) == pc[p] = "st_get" /\ pc'[p] = "st_patch"

\* the step of handler p that writes the streak
WritesStreak(p) == pc[p] = "st_patch" /\ pc'[p] = "idle"

PriorStreak(c) == IF cardStates[c].found THEN cardStates[c].correct_streak ELSE 0
PriorEasyCount(c) == IF cardStates[c].found THEN cardStates[c].easy_count ELSE 0

RatingsOf(log) == [i \in 1..Len(log) |-> log[i].rating]

\* the card state of every recorded review has been written
CardStatesWritten == \A p \in Procs : pc[p] \notin {"card_get", "card_put"}

\* C2 as stated: again, good, easy on a fresh card ends with interval 10,
\* streak 1, easy count 1, not finished.
C2_AsStated ==
    (RatingsOf(reviews) = <<"again", "good", "easy">> /\ CardStatesWritten) =>
        /\ cardStates[0].interval = 10
        /\ cardStates[0].correct_streak = 1
        /\ cardStates[0].easy_count = 1
        /\ ~cardStates[0].is_finished

\* C2 amended: again, good, easy on a fresh card ends with interval 10,
\* streak 2, easy count 1, finished.
C2_AgainGoodEasy ==
    (RatingsOf(reviews) = <<"again", "good", "easy">> /\ CardStatesWritten) =>
        /\ cardStates[0].interval = 10
        /\ cardStates[0].correct_streak = 2
        /\ cardStates[0].easy_count = 1
        /\ cardStates[0].is_finished

C2_Witness ==
    /\ RatingsOf(reviews) = <<"again", "good", "easy">>
    /\ CardStatesWritten
    /\ cardStates[0].found

\* C3: a study action computes the streak from the stored last study date:
\* none -> 1; today -> unchanged; yesterday -> + 1; any other date -> 1;
\* and the row it writes carries today as the last study date.
C3_StreakCalc ==
    [][\A p \in Procs :
        /\ ReadsProfile(p) =>
              LET d == loc[p].st_today
                  l == profile.last_study_date
                  u == loc'[p].update_data
              IN /\ l = NoDate => u.current_streak = 1
                 /\ l = d => u.current_streak = profile.current_streak
                 /\ l = d - 1 => u.current_streak = profile.current_streak + 1
                 /\ l \notin {NoDate, d, d - 1} => u.current_streak = 1
                 /\ u.last_study_date = d
        /\ WritesStreak(p) =>
              /\ profile'.current_streak = loc[p].update_data.current_streak
              /\ profile'.last_study_date = loc[p].st_today]_vars

\* a streak of 2 has been reset to 1 by a study action two days after the last
C3_Witness ==
    /\ pc[1] = "st_patch"
    /\ profile.current_streak = 2
    /\ profile.last_study_date = loc[1].st_today + 1
    /\ loc[1].update_data.current_streak = 1

\* C4: the stored longest streak is never below the stored current streak.
C4_LongestAtLeastCurrent ==
    profile.found => profile.longest_streak >= profile.current_streak

\* a reset left the current streak below the longest one
C4_Witness ==
    /\ profile.found
    /\ profile.current_streak = 1
    /\ profile.longest_streak = 2

\* C5: a study action of a day whose streak has been written already leaves
\* the current and the longest streak as they are.
C5_OncePerDay ==
    [][\A p \in Procs :
        (WritesStreak(p) /\ loc[p].st_today \in studied) =>
            /\ profile'.current_streak = profile.current_streak
            /\ profile'.longest_streak = profile.longest_streak]_vars

\* the handler has written the review and the card state and is busy with
\* the analytics or the streak
SideEffectsPending(p) ==
    pc[p] \in {"an_get", "an_create", "an_patch", "st_get", "st_patch", "st_create"}

\* C6: once the review and the card state are stored, no failure of the
\* analytics update or of the streak update makes the handler fail: it
\* answers 201 with the updated card state.
C6_SideEffectsBestEffort ==
    [][\A p \in Procs :
        (SideEffectsPending(p) /\ pc'[p] = "idle") =>
            /\ resp'[p].status = 201
            /\ req[p].op = "review" =>
                  resp'[p].card_state = loc[p].updated_state]_vars

\* C7: a recorded review adds to today's row exactly 1 to total_reviewed, 1
\* to the counter of its rating and 0 to the other two, and time_taken to
\* total_time_spent; a row that did not exist is created with zeros.
C7_AnalyticsDelta ==
    [][\A p \in Procs :
        /\ WritesAnalytics(p) =>
              LET d == loc[p].an_today
                  r == req[p].rating
                  o == analytics[d]
                  n == analytics'[d]
              IN /\ o.found /\ n.found
                 /\ n.total_reviewed = o.total_reviewed + 1
                 /\ n.again_count = o.again_count + (IF r = "again" THEN 1 ELSE 0)
                 /\ n.good_count = o.good_count + (IF r = "good" THEN 1 ELSE 0)
                 /\ n.easy_count = o.easy_count + (IF r = "easy" THEN 1 ELSE 0)
                 /\ n.total_time_spent = o.total_time_spent + req[p].time_taken
                 /\ \A e \in Days \ {d} : analytics'[e] = analytics[e]
        /\ (pc[p] = "an_create" /\ pc'[p] = "an_patch") =>
              LET n == analytics'[loc[p].an_today]
              IN /\ n.found
                 /\ n.total_reviewed = 0 /\ n.again_count = 0
                 /\ n.good_count = 0 /\ n.easy_count = 0
                 /\ n.total_finished = 0 /\ n.total_time_spent = 0]_vars

\* the second review of a day has been counted: an easy after a good
C7_Witness ==
    /\ pc[1] = "st_get"
    /\ req[1].rating = "easy"
    /\ analytics[loc[1].an_today].total_reviewed = 2
    /\ analytics[loc[1].an_today].good_count = 1
    /\ analytics[loc[1].an_today].easy_count = 1
    /\ analytics[loc[1].an_today].total_time_spent = 6

\* C8: a review raises total_finished only when it made the card finished:
\* the card was not finished before the review and is finished after it.
C8_FinishedCountedOnce ==
    [][\A p \in Procs :
        (WritesAnalytics(p) /\
         analytics'[loc[p].an_today].total_finished
             > analytics[loc[p].an_today].total_finished) =>
            /\ loc[p].updated_state.is_finished
            /\ ~(loc[p].current_state.found
                  /\ loc[p].current_state.is_finished)]_vars

\* C9: no step lowers a counter of a stored daily analytics row.
C9_CountersMonotone ==
    [][\A d \in Days : analytics[d].found =>
        /\ analytics'[d].found
        /\ analytics'[d].total_reviewed >= analytics[d].total_reviewed
        /\ analytics'[d].again_count >= analytics[d].again_count
        /\ analytics'[d].good_count >= analytics[d].good_count
        /\ analytics'[d].easy_count >= analytics[d].easy_count
        /\ analytics'[d].total_finished >= analytics[d].total_finished
        /\ analytics'[d].total_time_spent >= analytics[d].total_time_spent]_vars

(***************************************************************************)
(* Properties of the cache lookup.                                         *)
(***************************************************************************)
\* the response is one that was answered from the store
FromStore(r) == "cached" \in DOMAIN r /\ r.cached

\* the step in which the generate handler of p returns
GenerateReturns(p) ==
    gpc[p] # "idle" /\ gpc'[p] = "idle" /\ greq[p].op = "generate"

\* what the first generate call of the request's file and kind answered
FirstAnswer(p) == first[greq[p].file_id, greq[p].kind]

\* the handler has neither called a generation backend nor written
NoGeneration(p) ==
    /\ ~gloc[p].invoked /\ ~gloc[p].wrote
    /\ artifacts' = artifacts /\ nextId' = nextId

StoredIn(tables, kind, f) == SelectSeq(tables[kind], LAMBDA r : r.file_id = f)

\* the stored artifacts of a file and kind
Stored(kind, f) == StoredIn(artifacts, kind, f)

SavesArtifact(p) == gpc[p] = "g_save" /\ gpc'[p] = "idle"

\* C12: the save of a generate handler is not conditional on the lookup still
\* missing: it adds a row for its file and kind whatever is stored by then,
\* so that two overlapping requests that both missed store two artifacts.
C12_CheckThenInsert ==
    [][\A p \in Procs : SavesArtifact(p) =>
        /\ Len(StoredIn(artifacts', greq[p].kind, greq[p].file_id)) =
              Len(Stored(greq[p].kind, greq[p].file_id)) + 1
        /\ gresp'[p].status = 200 /\ ~gresp'[p].cached]_vars

\* two overlapping quiz requests of one file have both stored a quiz
C12_Witness ==
    /\ Len(Stored("quiz", "f1")) = 2
    /\ gpc[1] = "idle" /\ gpc[2] = "idle"
    /\ ~FromStore(gresp[1]) /\ ~FromStore(gresp[2])
    /\ gresp[1].status = 200 /\ gresp[2].status = 200

\* C13: the card state a review writes is computed from the row its handler
\* read, not from the row stored at the time of the write, so that of two
\* overlapping reviews of one card that read the same row only one is
\* reflected in the stored streak and easy count.
C13_WritesFromStaleRead ==
    [][\A p \in Procs : WritesCardState(p) =>
        LET c == req[p].flashcard_id
            r == req[p].rating
            o == loc[p].current_state
            n == cardStates'[c]
        IN /\ n.correct_streak =
                 (IF r = "again" THEN 0 ELSE StoredStreak(o) + 1)
           /\ n.easy_count =
                 StoredEasyCount(o) + (IF r = "easy" THEN 1 ELSE 0)]_vars

\* three easy reviews are recorded and their card states written, the last
\* two overlapping: the stored state counts two of them
C13_Witness ==
    /\ RatingsOf(reviews) = <<"easy", "easy", "easy">>
    /\ \A p \in Procs : pc[p] = "idle" /\ resp[p].status = 201
    /\ cardStates[0].found
    /\ cardStates[0].correct_streak = 2
    /\ cardStates[0].easy_count = 2

\* no artifact of the file is stored
NothingStoredFor(tables, f) ==
    \A kind \in Kinds :
       \A n \in 1..Len(tables[kind]) : tables[kind][n].file_id # f

\* C23: a generate request for a file whose stripped text is empty answers
\* 422, one for a missing file answers 404; neither calls a generation backend
\* nor writes, and no artifact of such a file is stored.
C23_EmptyOrMissingSource ==
    [][\A p \in Procs :
          (GenerateReturns(p) /\ greq[p].file_id \in {"f3", "f4"}) =>
              /\ gresp'[p] = IF greq[p].file_id = "f3" THEN Unprocessable
                             ELSE NotFound
              /\ NoGeneration(p)
              /\ NothingStoredFor(artifacts', greq[p].file_id)]_vars

\* a generate request was answered 422 while an artifact of another file is
\* stored
C23_Witness ==
    /\ gpc[1] = "idle"
    /\ gresp[1] = Unprocessable
    /\ artifacts["quiz"] # <<>>

\* C25: a review with a rating other than again, good, easy is answered 400
\* and writes nothing; so every stored review, and every review a handler is
\* working on, has one of the three ratings.
C25_InvalidRatingRejected ==
    /\ [](/\ \A n \in 1..Len(reviews) : reviews[n].rating \in ValidRatings
          /\ \A p \in Procs :
                (pc[p] # "idle" /\ req[p].op = "review") =>
                    req[p].rating \in ValidRatings)
    /\ [][\A p \in Procs :
             (resp'[p] = BadRequest /\ resp[p] # BadRequest) =>
                 /\ reviews' = reviews /\ cardStates' = cardStates
                 /\ analytics' = analytics /\ profile' = profile
                 /\ pc' = pc]_vars

\* a review rated "hard" was answered 400 after an easy one was stored, and
\* the card shows the one easy review
C25_Witness ==
    /\ pc[1] = "idle" /\ resp[1] = BadRequest
    /\ RatingsOf(reviews) = <<"easy">>
    /\ cardStates[0] # NoRow
    /\ cardStates[0].easy_count = 1

(***************************************************************************)
(* Properties of the validators.                                           *)
(***************************************************************************)
\* the element passes the checks of the validator called
PassesChecks(element) ==
    IF val.fn = "quiz" THEN ValidQuestion(element) ELSE ValidCard(element)

\* the places of the valid elements of the list given to the validator
ValidPlaces == {i \in 1..Len(val.data) : PassesChecks(val.data[i])}

\* C18: a validator answers the valid elements of the parsed list, in their
\* order and with their strings stripped, when there are at least 3 of them,
\* and rejects the list otherwise; an invalid element costs no valid one.
C18_ValidSublist ==
    val.returned =>
        /\ val.result.ok <=> Cardinality(ValidPlaces) >= 3
        /\ val.result.ok =>
              /\ Len(val.result.items) = Cardinality(ValidPlaces)
              /\ \A i \in ValidPlaces :
                    val.result.items[Cardinality({j \in ValidPlaces : j <= i})]
                        = Stripped(val.data[i])

\* the quiz validator was given two valid questions, a malformed one and a
\* third valid one, and answered the three valid ones
C18_Witness ==
    /\ val.fn = "quiz" /\ val.returned
    /\ Len(val.data) = 4
    /\ ValidPlaces = {1, 2, 4}
    /\ val.data[2].padded
    /\ val.result.ok
    /\ Len(val.result.items) = 3

(***************************************************************************)
(* Properties of chunk_text.                                               *)
(***************************************************************************)
\* the text holds no sentence, paragraph or line boundary
NoBoundary(text) == \A i \in 1..Len(text) : text[i] \notin {".", "\n"}

\* C20: every call of chunk_text returns, and every iteration of its loop
\* cuts strictly after the start of the segment and moves the start there.
C20_Terminates ==
    /\ [][(chk.pc = "loop" /\ chk'.pc = "loop") =>
             /\ chk'.end > chk.start
             /\ chk'.start = chk'.end]_vars
    /\ (chk.pc = "called") ~> (chk.pc = "returned")

\* a text of 4 letters without any boundary has been cut into 2 chunks
C20_Witness ==
    /\ chk.pc = "returned"
    /\ Len(chk.text) = 4
    /\ NoBoundary(chk.text)
    /\ chk.max_chars = 2
    /\ chk.chunks = <<(<<"a", "a">>), (<<"a", "a">>)>>

(***************************************************************************)
(* Properties of the generation cascade.                                   *)
(***************************************************************************)
\* the place of a backend in the order
TierIndex(tier) == CHOOSE n \in 1..Len(Tiers) : Tiers[n] = tier

\* the backends before the heuristic generator that are configured: the
\* hosted ones by their keys, the local model where the task has one
Configured(c) ==
    (IF c.groq_key THEN {"groq"} ELSE {})
        \cup (IF c.task = "summary" THEN {"local"} ELSE {})
        \cup (IF c.hf_key THEN {"hf"} ELSE {})

\* the element of a quiz or of a set of flashcards is schema-valid
ValidElement(task, element) ==
    IF task = "quiz" THEN ValidQuestion(element) ELSE ValidCard(element)

\* the answer of the hosted LLM does not hold 3 valid elements
AnswerFailsValidation(c) ==
    /\ c.answered
    /\ Cardinality({n \in 1..Len(c.output) :
                       ValidElement(c.task, c.output[n])}) < 3

\* C14: every generation call for a non-empty text returns a valid artifact,
\* whatever the backends did: a summary, or a list of at least 3 schema-valid
\* questions or cards.
C14_AlwaysValidArtifact ==
    casc.pc = "returned" =>
        /\ casc.status = 200
        /\ casc.saved
        /\ casc.task \in {"quiz", "flashcards"} =>
              /\ Len(casc.result) >= 3
              /\ \A n \in 1..Len(casc.result) :
                    ValidElement(casc.task, casc.result[n])

\* C15: the backends are invoked in the order hosted LLM, local model,
\* secondary hosted API, heuristic generator; one without its key is not
\* invoked; and the heuristic generator produces the result only after every
\* configured backend before it was invoked and failed.
C15_OrderedCascade ==
    /\ \A m, n \in 1..Len(casc.attempted) :
          m < n => TierIndex(casc.attempted[m]) < TierIndex(casc.attempted[n])
    /\ \A n \in 1..Len(casc.attempted) :
          /\ casc.attempted[n] = "groq" => casc.groq_key
          /\ casc.attempted[n] = "hf" => casc.hf_key
    /\ casc.source = "heuristic" =>
          \A tier \in Configured(casc) :
             /\ \E n \in 1..Len(casc.attempted) : casc.attempted[n] = tier
             /\ tier \in casc.failed

\* C16: when the hosted LLM answered with a list that fails validation, the
\* list is neither returned nor saved, the tier counts as failed, and the
\* backend invoked next is the next one of the order.
C16_InvalidAdvancesCascade ==
    (AnswerFailsValidation(casc) /\ casc.pc \in {"endpoint", "returned"}) =>
        /\ casc.source # "groq"
        /\ casc.result # casc.output
        /\ "groq" \in casc.failed
        /\ Len(casc.attempted) >= 2
        /\ casc.attempted[1] = "groq"
        /\ casc.attempted[2] = Tiers[TierIndex("groq") + 1]

\* C17: when a backend timed out, answered without success or raised, the
\* result (of a summary: of every chunk) is produced by a later backend, and
\* nothing of the returned artifact comes from the failed one.
C17_FailedBackendContributesNothing ==
    casc.pc = "returned" =>
        \A tier \in casc.failed :
           /\ TierIndex(casc.source) > TierIndex(tier)
           /\ casc.task = "summary" =>
                 \A n \in 1..Len(casc.result) :
                    /\ casc.result[n] # "truncation"
                    /\ TierIndex(casc.result[n]) > TierIndex(tier)

(***************************************************************************)
(* Properties of the stored quizzes.                                       *)
(***************************************************************************)
\* the question has at least 3 options and its answer_index is one of them
WellFormedQuestion(question) ==
    /\ question.options >= 3
    /\ question.answer_index >= 0
    /\ question.answer_index < question.options

\* C19: every question of every stored quiz has at least 3 options and an
\* answer index within them, whether the hosted LLM, the heuristic generator
\* or an edit of the user wrote it.
C19_StoredQuizWellFormed ==
    \A n \in 1..Len(artifacts["quiz"]) :
       \A m \in 1..Len(QuizOf(artifacts["quiz"][n].payload)) :
          WellFormedQuestion(QuizOf(artifacts["quiz"][n].payload)[m])

\* the chunks joined in their order
RECURSIVE Joined(_)
Joined(chunks) ==
    IF chunks = <<>> THEN <<>> ELSE Head(chunks) \o Joined(Tail(chunks))

\* the text without its white space
Unspaced(text) ==
    LET inked == {i \in 1..Len(text) : ~IsSpace(text[i])}
    IN [n \in 1..Cardinality(inked) |->
           text[CHOOSE i \in inked : Cardinality({j \in inked : j <= i}) = n]]

NonBlank(text) == \E i \in 1..Len(text) : ~IsSpace(text[i])

C22_ChunksReproduceText ==
    chk.pc = "returned" =>
        /\ Unspaced(Joined(chk.chunks)) = Unspaced(chk.text)
        /\ \A n \in 1..Len(chk.chunks) :
              \E i \in 0..Len(chk.text) : OccursAt(chk.text, chk.chunks[n], i)

\* a text was cut after a sentence, and the space behind the full stop is in
\* no chunk
C22_Witness ==
    /\ chk.pc = "returned"
    /\ chk.text = <<"a", ".", " ", "a">>
    /\ chk.max_chars = 3
    /\ chk.chunks = <<(<<"a", ".">>), (<<"a">>)>>

(***************************************************************************)
(* Properties of the ownership checks.                                     *)
(***************************************************************************)
\* the stored tables are as they were
TablesUnchanged ==
    /\ artifacts' = artifacts /\ reviews' = reviews
    /\ cardStates' = cardStates /\ analytics' = analytics
    /\ profile' = profile

\* 404 for an artifact that does not exist, 403 for one of another user
AnswerAsStated(kind, id) ==
    IF RowAt(kind, id) = {} THEN NotFound ELSE Forbidden

\* the same, but 404 as well when update_summary meets a summary of another
\* user
AnswerOfCode(op, kind, id) ==
    IF RowAt(kind, id) = {} \/ (op = "edit" /\ kind = "summary")
    THEN NotFound ELSE Forbidden

\* process p is at the ownership check of an edit or delete of an artifact
\* that is not the caller's, and takes its step
RefusedArtifactCall(p) ==
    /\ gpc[p] \in {"e_verify", "d_verify"}
    /\ gpc'[p] # gpc[p]
    /\ OwnRowAt(greq[p].kind, gloc[p].id) = {}

\* process p is at the ownership check of a review of a set that is not the
\* caller's, and takes its step
RefusedReview(p) ==
    /\ pc[p] = "set_verify"
    /\ pc'[p] # pc[p]
    /\ OwnRowAt("flashcards", req[p].flashcard_set_id) = {}

ReviewedDays == {reviews[n].created_at : n \in 1..Len(reviews)}

\* C26: a daily analytics row exists for a day only if a review was recorded
\* on that day; reading the analytics creates no row.
C26_RowsOnlyForReviewedDays ==
    \A d \in Days : analytics[d].found => d \in ReviewedDays

(***************************************************************************)
(* Properties of a review whose store calls fail.                          *)
(***************************************************************************)
\* the step in which handler p answers a review with an error after the
\* review was posted
FailsAfterPost(p) ==
    /\ pc[p] # "idle" /\ req[p].op = "review"
    /\ pc'[p] = "idle" /\ resp'[p] = ServerError

\* the card state of handler p's review has been written
CardStateWritten(p) == pc[p] \in {"an_get", "an_create", "an_patch"}

\* C27: a review that is answered with an error leaves the store as it was
\* before the call: the review it posted is no longer in the log, and the
\* card is back in the state the handler read.
C27_FailedReviewLeavesNoTrace ==
    [][\A p \in Procs :
          FailsAfterPost(p) =>
              /\ reviews' = SubSeq(reviews, 1, Len(reviews) - 1)
              /\ CardStateWritten(p) =>
                    cardStates'[req[p].flashcard_id] = loc[p].current_state]_vars

(***************************************************************************)
(* Properties of the tables a generate call writes.                        *)
(***************************************************************************)
\* a step of the generate handler of p for a quiz or for flashcards
QuizOrCardsStep(p) ==
    /\ gpc[p] # "idle" /\ greq[p].op = "generate"
    /\ greq[p].kind \in {"quiz", "flashcards"}

\* the table gained one row, of file f, and nothing else changed in it
GainsRowOf(old, new, f) ==
    /\ Len(new) = Len(old) + 1
    /\ SubSeq(new, 1, Len(old)) = old
    /\ new[Len(new)].file_id = f

C29_NoLostIncrement ==
    [][\A p \in Procs :
          WritesAnalytics(p) =>
              analytics'[loc[p].an_id].total_reviewed =
                  analytics[loc[p].an_id].total_reviewed + 1]_vars

(***************************************************************************)
(* Properties of the stored streak when reads of the profile may fail.     *)
(***************************************************************************)
\* C30: a study action never lowers the stored longest streak, and lowers the
\* stored current streak only when the last study date lies two days or more
\* before the day of the action; also when its read of the profile fails.
C30_StreakNeverLost ==
    [][\A p \in Procs :
          (WritesStreak(p) /\ profile.found /\ profile'.found) =>
              /\ profile'.longest_streak >= profile.longest_streak
              /\ profile'.current_streak < profile.current_streak =>
                    /\ profile.last_study_date # NoDate
                    /\ loc[p].st_today - profile.last_study_date >= 2]_vars

====
